---- MODULE Spec2Model ----
(***************************************************************************)
(* A model of the UT-Assert counter store and assertion engine             *)
(* (utassert.c / utassert.h).  Several threads call the public functions;  *)
(* every function is split at its UT_BSP_Lock / UT_BSP_Unlock calls and at *)
(* its reporting call, so that the interleavings the lock allows are the   *)
(* interleavings of the model.                                             *)
(***************************************************************************)
EXTENDS Integers, Sequences, FiniteSets, TLC

VARIABLES
    DefaultContext,      \* utassert.c:41
    UT_SegmentCounters,  \* utassert.c:42
    UT_TotalCounters,    \* utassert.c:43
    CurrentSegment,      \* utassert.c:44
    lock,                \* owner of the UT_BSP_Lock mutex, NoThread when free
    pc,                  \* per thread: the statement it executes next
    frame,               \* per thread: arguments, locals, emitted lines, return value
    calls,               \* history: number of API calls started so far
    Finalized,           \* history: uint32 sums of the segments EndTest found non-empty
    log,                 \* history: what was recorded since the last BeginTest / EndTest
    issued,              \* history: ordinal pairs handed out since the last Begin/End
    returned,            \* history: the call that has just returned, with its frame
    pure,                \* one application of a pure helper: its name, inputs and result
    build                \* the C implementation: width of long, signedness of UT_IntCheck_t

vars == <<DefaultContext, UT_SegmentCounters, UT_TotalCounters, CurrentSegment, lock,
          pc, frame, calls, Finalized, log, issued, returned, pure, build>>

-----------------------------------------------------------------------------
(* Bounds of the model *)

MaxCalls == 4
\* the calls made in one behaviour of SpecGeneric and of SpecString
MaxApplications == 1

(* Program constants *)

LimbBase == 65536
U8 == 256
UTASSERT_CASETYPE_NONE == 0
UTASSERT_CASETYPE_ABORT == 1
UTASSERT_CASETYPE_FAILURE == 2
UTASSERT_CASETYPE_TSF == 3
UTASSERT_CASETYPE_TTF == 4
UTASSERT_CASETYPE_MIR == 5
UTASSERT_CASETYPE_WARN == 6
UTASSERT_CASETYPE_NA == 7
UTASSERT_CASETYPE_BEGIN == 8
UTASSERT_CASETYPE_END == 9
UTASSERT_CASETYPE_INFO == 10
UTASSERT_CASETYPE_PASS == 11
UTASSERT_CASETYPE_FLOW == 12
UTASSERT_CASETYPE_DEBUG == 13
UTASSERT_CASETYPE_MAX == 14
CurrentSegmentSize == 64

\* two callers: enough to interleave any two of the functions
Threads == {1, 2}
NoThread == 0
CaseTypes == 0..(UTASSERT_CASETYPE_MAX - 1)

(* Inputs the callers draw from.  PASS + 256 and -1 (the largest uint32     *)
(* after the cast) are classifications outside the enumeration, as is MAX. *)
CaseTypeInputs ==
    {UTASSERT_CASETYPE_FAILURE, UTASSERT_CASETYPE_PASS, UTASSERT_CASETYPE_MAX,
     UTASSERT_CASETYPE_PASS + U8, -1}
AssertInputs ==
    {<<e, c>> \in BOOLEAN \X CaseTypeInputs :
        e => c \in {UTASSERT_CASETYPE_FAILURE, UTASSERT_CASETYPE_MAX}}
ContextInputs == {UTASSERT_CASETYPE_FAILURE, UTASSERT_CASETYPE_TSF}
ShortName == <<65>>
LongName == [i \in 1..(CurrentSegmentSize + 2) |-> 66]
SegmentNameInputs == {ShortName, LongName}

-----------------------------------------------------------------------------
(* Conversions and pure helpers *)

(* A uint32 is kept as two 16-bit limbs, value = hi * LimbBase + lo, so that the *)
(* full 32-bit width is represented and additions wrap exactly at 2^32.        *)

\* (uint32)x for an int x
ToUint32(x) == [hi |-> (x \div LimbBase) % LimbBase, lo |-> x % LimbBase]

Zero32 == [hi |-> 0, lo |-> 0]
One32 == [hi |-> 0, lo |-> 1]
Max32 == [hi |-> LimbBase - 1, lo |-> LimbBase - 1]

\* uint32 addition, modulo 2^32
Add32(a, b) ==
    LET lo == a.lo + b.lo
        hi == a.hi + b.hi + (lo \div LimbBase)
    IN [hi |-> hi % LimbBase, lo |-> lo % LimbBase]

\* uint32 subtraction, modulo 2^32
Sub32(a, b) ==
    LET lo == a.lo - b.lo
        hi == a.hi - b.hi - (IF lo < 0 THEN 1 ELSE 0)
    IN [hi |-> (hi + LimbBase) % LimbBase, lo |-> (lo + LimbBase) % LimbBase]

\* a < b and a <= b on uint32
Lt32(a, b) == a.hi < b.hi \/ (a.hi = b.hi /\ a.lo < b.lo)
Le32(a, b) == a = b \/ Lt32(a, b)

\* the array index a uint32 below 2^31 stands for
Val(a) == a.hi * LimbBase + a.lo

\* conversion of an argument to the uint8 parameter MessageType
ToUint8(x) == x % U8

\* UtAssert_TestCounter_t after memset(.., 0, ..)
ZeroCounters ==
    [TestSegmentCount |-> Zero32, TotalTestCases |-> Zero32,
     CaseCount |-> [c \in CaseTypes |-> Zero32]]

\* the uint32 sum of the cells of f at the indices S
RECURSIVE Sum32(_, _)
Sum32(f, S) ==
    IF S = {} THEN Zero32
    ELSE LET x == CHOOSE y \in S : TRUE IN Add32(f[x], Sum32(f, S \ {x}))

\* faulty variant: the caller's classification is kept for a passing expression
ResolveCaseType_Keep(Expression, CaseType) == CaseType

\* if (Expression) CaseType = UTASSERT_CASETYPE_PASS;
ResolveCaseType(Expression, CaseType) ==
    IF Expression THEN UTASSERT_CASETYPE_PASS ELSE CaseType

\* faulty variant: the range check admits UTASSERT_CASETYPE_MAX itself
CaseTypeInRange_Inclusive(CaseType) ==
    Le32(ToUint32(CaseType), ToUint32(UTASSERT_CASETYPE_MAX))

\* (uint32)CaseType < UTASSERT_CASETYPE_MAX
CaseTypeInRange(CaseType) == Lt32(ToUint32(CaseType), ToUint32(UTASSERT_CASETYPE_MAX))

\* ++CaseCount[idx]: a write at idx, recorded as a new cell when idx lies outside
\* the array
WriteCaseCount(CaseCount, idx) ==
    [i \in (DOMAIN CaseCount) \cup {idx} |->
        IF i = idx
        THEN Add32(IF i \in DOMAIN CaseCount THEN CaseCount[i] ELSE Zero32, One32)
        ELSE CaseCount[i]]

\* ++UT_SegmentCounters.TotalTestCases and the guarded ++CaseCount[(uint32)CaseType]
RecordCase(Counters, CaseType) ==
    [Counters EXCEPT
        !.TotalTestCases = Add32(@, One32),
        !.CaseCount = IF CaseTypeInRange(CaseType)
                      THEN WriteCaseCount(@, Val(ToUint32(CaseType)))
                      ELSE @]

\* faulty variant: the count of finished segments is taken as the ordinal
NextSegmentOrdinal_Finished(Total) == Total.TestSegmentCount

\* 1 + UT_TotalCounters.TestSegmentCount
NextSegmentOrdinal(Total) == Add32(One32, Total.TestSegmentCount)

\* faulty variant: every segment is taken as valid
SegmentIsValid_Always(Segment) == TRUE

\* SegmentValid = (UT_SegmentCounters.TotalTestCases > 0)
SegmentIsValid(Segment) == Lt32(Zero32, Segment.TotalTestCases)

\* faulty variant: the per-classification counts are assigned, not added
FoldTotal_Assign(Total, Segment) ==
    [TestSegmentCount |-> Add32(Total.TestSegmentCount, One32),
     TotalTestCases |-> Add32(Total.TotalTestCases, Segment.TotalTestCases),
     CaseCount |-> [c \in DOMAIN Total.CaseCount |-> Segment.CaseCount[c]]]

\* faulty variant: the segment counter is not advanced
FoldTotal_SkipSegmentCount(Total, Segment) ==
    [TestSegmentCount |-> Total.TestSegmentCount,
     TotalTestCases |-> Add32(Total.TotalTestCases, Segment.TotalTestCases),
     CaseCount |-> [c \in DOMAIN Total.CaseCount |->
                        Add32(Total.CaseCount[c], Segment.CaseCount[c])]]

\* the fold of the segment aggregate into the cumulative one
FoldTotal(Total, Segment) ==
    [TestSegmentCount |-> Add32(Total.TestSegmentCount, One32),
     TotalTestCases |-> Add32(Total.TotalTestCases, Segment.TotalTestCases),
     CaseCount |-> [c \in DOMAIN Total.CaseCount |->
                        Add32(Total.CaseCount[c], Segment.CaseCount[c])]]

\* UT_SegmentCounters.TestSegmentCount = UT_TotalCounters.TestSegmentCount, then memcpy
SnapshotSegment(NewTotal, Segment) ==
    [Segment EXCEPT !.TestSegmentCount = NewTotal.TestSegmentCount]

\* faulty variant: the whole name is stored
StoreSegmentName_Whole(SegmentName) == SegmentName

\* strncpy(CurrentSegment, SegmentName, 63); CurrentSegment[63] = 0
StoreSegmentName(SegmentName) ==
    IF Len(SegmentName) > CurrentSegmentSize - 1
    THEN SubSeq(SegmentName, 1, CurrentSegmentSize - 1)
    ELSE SegmentName

\* faulty variant: the result tells whether the case was classified PASS
UtAssertEx_Result_ByCaseType(Expression, CaseType) == CaseType = UTASSERT_CASETYPE_PASS

\* return Expression;
UtAssertEx_Result(Expression, CaseType) == Expression

-----------------------------------------------------------------------------
(* Lines handed to the board support package *)

NoCounters == ZeroCounters

\* UtAssert_DoReport -> UT_BSP_DoText(MessageType, "%02u.%03u %s:%u - %s")
CaseLine(SegmentNum, TestSeq, CaseType) ==
    [kind |-> "case", MessageType |-> ToUint8(CaseType), SegmentNum |-> SegmentNum,
     TestSeq |-> TestSeq, Name |-> <<>>]

\* UT_BSP_DoText(UTASSERT_CASETYPE_END, "No test cases\n")
NoTestCasesLine ==
    [kind |-> "no_test_cases", MessageType |-> UTASSERT_CASETYPE_END, SegmentNum |-> Zero32,
     TestSeq |-> Zero32, Name |-> <<>>]

\* UT_BSP_StartTestSegment(TestSegmentCount, SegmentName)
StartLine(SegmentNum, SegmentName) ==
    [kind |-> "start", MessageType |-> UTASSERT_CASETYPE_BEGIN, SegmentNum |-> SegmentNum,
     TestSeq |-> Zero32, Name |-> SegmentName]

-----------------------------------------------------------------------------
(* Texts: a C string is the sequence of its character codes, a pointer is  *)
(* either NULL or the bytes it points to.                                  *)

NULL == [null |-> TRUE, bytes |-> <<>>]
Ptr(bytes) == [null |-> FALSE, bytes |-> bytes]

Char_Slash == 47
Char_Colon == 58
Char_Zero == 48
FinalMessageSize == 256

\* snprintf(buf, size, "%s", text): at most size - 1 characters are stored
Truncate(text, size) ==
    IF Len(text) > size - 1 THEN SubSeq(text, 1, size - 1) ELSE text

\* "%u" of a non-negative value
RECURSIVE DecimalText(_)
DecimalText(n) ==
    IF n < 10 THEN <<Char_Zero + n>>
    ELSE Append(DecimalText(n \div 10), Char_Zero + (n % 10))

\* strrchr(text, ch): the position of the last ch, 0 when there is none
StrRChr(text, ch) ==
    IF \E i \in 1..Len(text) : text[i] = ch
    THEN CHOOSE i \in 1..Len(text) :
            text[i] = ch /\ \A j \in (i + 1)..Len(text) : text[j] # ch
    ELSE 0

\* UtAssert_Message, lines 308-316
BaseNameOf(File) ==
    IF StrRChr(File, Char_Slash) = 0 THEN File
    ELSE SubSeq(File, StrRChr(File, Char_Slash) + 1, Len(File))

\* UtAssert_Message, lines 306-327: the text in FinalMessage
Message_FinalMessage(File, Line, Text) ==
    LET Prefix == IF File.null THEN <<>>
                  ELSE Truncate(BaseNameOf(File.bytes) \o <<Char_Colon>>
                                    \o DecimalText(Line) \o <<Char_Colon>>,
                                FinalMessageSize)
    IN Prefix \o Truncate(Text, FinalMessageSize - Len(Prefix))

\* UT_BSP_DoText(MessageType, Text)
TextLine(MessageType, Text) ==
    [kind |-> "text", MessageType |-> MessageType, SegmentNum |-> Zero32,
     TestSeq |-> Zero32, Name |-> Text]

MessageTypeInputs == {UTASSERT_CASETYPE_INFO, UTASSERT_CASETYPE_DEBUG}
FileInputs == {NULL, Ptr(<<100, Char_Slash, 102>>), Ptr(<<102>>)}
LineInputs == {7, 120}
TextInputs == {<<109>>}

-----------------------------------------------------------------------------
(* Integers of the comparison engine.  A value of any C integer type is   *)
(* kept as its two's complement pattern extended to the 64 bits of         *)
(* intmax_t / uintmax_t, in four 16-bit limbs, most significant first.     *)

UtAssert_Compare_NONE == 0
UtAssert_Compare_EQ == 1
UtAssert_Compare_NEQ == 2
UtAssert_Compare_LT == 3
UtAssert_Compare_GT == 4
UtAssert_Compare_LTEQ == 5
UtAssert_Compare_GTEQ == 6
UtAssert_Compare_BITMASK_SET == 7
UtAssert_Compare_BITMASK_UNSET == 8

IntMaxBits == 64
LimbTop == LimbBase - 1
SignBit == LimbBase \div 2

\* the pattern of a (small) mathematical integer
FromInt(n) ==
    <<IF n < 0 THEN LimbTop ELSE 0, IF n < 0 THEN LimbTop ELSE 0,
      (n \div LimbBase) % LimbBase, n % LimbBase>>

Zero64 == <<0, 0, 0, 0>>
AllOnes64 == <<LimbTop, LimbTop, LimbTop, LimbTop>>

\* C integer types: intmax_t, uintmax_t, and, by the build, long and unsigned long
Type_intmax_t == [bits |-> IntMaxBits, signed |-> TRUE]
Type_uintmax_t == [bits |-> IntMaxBits, signed |-> FALSE]
Type_long == [bits |-> build.LongBits, signed |-> TRUE]
Type_unsigned_long == [bits |-> build.LongBits, signed |-> FALSE]

\* faulty variant: UT_IntCheck_t is unsigned and as wide as int
UT_IntCheck_t_Narrow == [bits |-> IntMaxBits \div 2, signed |-> FALSE]

\* UT_IntCheck_t, whose typedef is in no file at hand: the widest integer
\* representation there is, signed in one build and unsigned in another
UT_IntCheck_t == [bits |-> IntMaxBits, signed |-> build.IntCheckSigned]

\* the builds the model ranges over
LP64 == [LongBits |-> 64, IntCheckSigned |-> FALSE]
Builds == [LongBits : {32, 64}, IntCheckSigned : BOOLEAN]

\* conversion of the value with pattern w to the integer type T: the low T.bits bits
\* are kept and extended by T's signedness
ConvertTo(T, w) ==
    IF T.bits = IntMaxBits THEN w
    ELSE LET ext == IF T.signed /\ w[3] >= SignBit THEN LimbTop ELSE 0
         IN <<ext, ext, w[3], w[4]>>

\* a < b on uintmax_t
RECURSIVE LtU_From(_, _, _)
LtU_From(a, b, i) ==
    IF i > Len(a) THEN FALSE
    ELSE IF a[i] # b[i] THEN a[i] < b[i]
    ELSE LtU_From(a, b, i + 1)
LtU(a, b) == LtU_From(a, b, 1)

\* a < b on intmax_t
SignFlip(a) == [a EXCEPT ![1] = (@ + SignBit) % LimbBase]
LtS(a, b) == LtU(SignFlip(a), SignFlip(b))

\* a & b
RECURSIVE BitAnd16(_, _)
BitAnd16(x, y) ==
    IF x = 0 \/ y = 0 THEN 0
    ELSE (x % 2) * (y % 2) + 2 * BitAnd16(x \div 2, y \div 2)
And64(a, b) == [i \in 1..4 |-> BitAnd16(a[i], b[i])]

\* UT_COMPARE_TYPE(t, s), line 52: ((t) << 1) | (s), evaluated in the 32 bits of
\* unsigned int.  t is the pattern of the UtAssert_Compare_t value; the bit shifted
\* out of the top is lost, the low bit of the shifted value is 0 and takes s
UT_COMPARE_TYPE(t, s) ==
    [hi |-> (t.hi * 2 + (t.lo \div SignBit)) % LimbBase,
     lo |-> ((t.lo * 2) % LimbBase) + (IF s THEN 1 ELSE 0)]

\* UtAssert_DoCompare, lines 420-494.  ActualValueIn is an intmax_t and
\* ReferenceValueIn a UT_IntCheck_t; both become the union member the flag selects
UtAssert_DoCompare(ActualValueIn, CompareType, ReferenceValueIn, IsUnsigned) ==
    LET T == IF IsUnsigned THEN Type_uintmax_t ELSE Type_intmax_t
        A == ConvertTo(T, ActualValueIn)
        R == ConvertTo(T, ReferenceValueIn)
        Kind == UT_COMPARE_TYPE(CompareType, IsUnsigned)
        Label(k, u) == UT_COMPARE_TYPE(ToUint32(k), u)
    IN CASE Kind = Label(UtAssert_Compare_EQ, TRUE) -> A = R
         [] Kind = Label(UtAssert_Compare_EQ, FALSE) -> A = R
         [] Kind = Label(UtAssert_Compare_NEQ, TRUE) -> A # R
         [] Kind = Label(UtAssert_Compare_NEQ, FALSE) -> A # R
         [] Kind = Label(UtAssert_Compare_LT, TRUE) -> LtU(A, R)
         [] Kind = Label(UtAssert_Compare_LT, FALSE) -> LtS(A, R)
         [] Kind = Label(UtAssert_Compare_GT, TRUE) -> LtU(R, A)
         [] Kind = Label(UtAssert_Compare_GT, FALSE) -> LtS(R, A)
         [] Kind = Label(UtAssert_Compare_LTEQ, TRUE) -> ~LtU(R, A)
         [] Kind = Label(UtAssert_Compare_LTEQ, FALSE) -> ~LtS(R, A)
         [] Kind = Label(UtAssert_Compare_GTEQ, TRUE) -> ~LtU(A, R)
         [] Kind = Label(UtAssert_Compare_GTEQ, FALSE) -> ~LtS(A, R)
         [] Kind = Label(UtAssert_Compare_BITMASK_SET, TRUE) -> And64(A, R) = R
         [] Kind = Label(UtAssert_Compare_BITMASK_SET, FALSE) -> And64(A, R) = R
         [] Kind = Label(UtAssert_Compare_BITMASK_UNSET, TRUE) -> And64(A, R) = Zero64
         [] Kind = Label(UtAssert_Compare_BITMASK_UNSET, FALSE) -> And64(A, R) = Zero64
         [] OTHER -> FALSE

-----------------------------------------------------------------------------
(* UtAssert_GetValueText: the text of a value in the log *)

UtAssert_Radix_DEFAULT == 0
UtAssert_Radix_BOOLEAN == 1
UtAssert_Radix_OCTAL == 8
UtAssert_Radix_DECIMAL == 10
UtAssert_Radix_HEX == 16
ValueTextSize == 32
Char_Minus == 45
Char_LowerA == 97
Char_LowerX == 120
Text_true == <<116, 114, 117, 101>>
Text_false == <<102, 97, 108, 115, 101>>

\* the character of one digit, as printf writes it: 0-9, then a-f
DigitChar(d) == IF d < 10 THEN Char_Zero + d ELSE Char_LowerA + (d - 10)

\* quotient and remainder of the unsigned value with pattern w by a small base
DivMod(w, base) ==
    LET c1 == w[1]
        c2 == (c1 % base) * LimbBase + w[2]
        c3 == (c2 % base) * LimbBase + w[3]
        c4 == (c3 % base) * LimbBase + w[4]
    IN [quot |-> <<c1 \div base, c2 \div base, c3 \div base, c4 \div base>>,
        rem |-> c4 % base]

\* "%lo", "%lx", "%lu" of the unsigned value with pattern w
RECURSIVE UnsignedText(_, _)
UnsignedText(w, base) ==
    LET qr == DivMod(w, base)
    IN IF qr.quot = Zero64 THEN <<DigitChar(qr.rem)>>
       ELSE Append(UnsignedText(qr.quot, base), DigitChar(qr.rem))

\* the pattern of -w
Negate(w) ==
    LET n4 == (LimbTop - w[4]) + 1
        n3 == (LimbTop - w[3]) + (n4 \div LimbBase)
        n2 == (LimbTop - w[2]) + (n3 \div LimbBase)
        n1 == (LimbTop - w[1]) + (n2 \div LimbBase)
    IN <<n1 % LimbBase, n2 % LimbBase, n3 % LimbBase, n4 % LimbBase>>

\* "%ld" of the signed value with pattern w
SignedText(w) ==
    IF w[1] >= SignBit THEN <<Char_Minus>> \o UnsignedText(Negate(w), 10)
    ELSE UnsignedText(w, 10)

\* faulty variant: the signed flag is looked at before the radix
UtAssert_GetValueText_SignFirst(TempSz, InValue, IsUnsigned, RadixType) ==
    Truncate(
        IF RadixType = UtAssert_Radix_BOOLEAN
        THEN (IF InValue # Zero64 THEN Text_true ELSE Text_false)
        ELSE IF ~IsUnsigned
        THEN SignedText(ConvertTo(Type_long, InValue))
        ELSE IF RadixType = UtAssert_Radix_OCTAL
        THEN <<Char_Zero>> \o UnsignedText(ConvertTo(Type_unsigned_long, InValue), 8)
        ELSE IF RadixType = UtAssert_Radix_HEX
        THEN <<Char_Zero, Char_LowerX>>
                 \o UnsignedText(ConvertTo(Type_unsigned_long, InValue), 16)
        ELSE UnsignedText(ConvertTo(Type_unsigned_long, InValue), 10),
        TempSz)

\* lines 386-418: what snprintf leaves in TempBuf
UtAssert_GetValueText(TempSz, InValue, IsUnsigned, RadixType) ==
    Truncate(
        IF RadixType = UtAssert_Radix_BOOLEAN
        THEN (IF InValue # Zero64 THEN Text_true ELSE Text_false)
        ELSE IF RadixType = UtAssert_Radix_OCTAL
        THEN <<Char_Zero>> \o UnsignedText(ConvertTo(Type_unsigned_long, InValue), 8)
        ELSE IF RadixType = UtAssert_Radix_HEX
        THEN <<Char_Zero, Char_LowerX>>
                 \o UnsignedText(ConvertTo(Type_unsigned_long, InValue), 16)
        ELSE IF IsUnsigned
        THEN UnsignedText(ConvertTo(Type_unsigned_long, InValue), 10)
        ELSE SignedText(ConvertTo(Type_long, InValue)),
        TempSz)

-----------------------------------------------------------------------------
(* UtAssert_DoTestSegmentReport: both lines are formatted into             *)
(* ReportBuffer[144], so each is the first 143 characters of its text.     *)

ReportBufferSize == 144
Char_Space == 32
\* the labels of the two format strings
SummaryLabel ==
    [ABORT |-> <<65, 66, 79, 82, 84, Char_Colon, Char_Colon>>,
     WARN |-> <<87, 65, 82, 78, Char_Colon, Char_Colon>>,
     FLOW |-> <<70, 76, 79, 87, Char_Colon, Char_Colon>>,
     DEBUG |-> <<68, 69, 66, 85, 71, Char_Colon, Char_Colon>>,
     NA |-> <<78, Char_Slash, 65, Char_Colon, Char_Colon>>,
     TOTAL |-> <<84, 79, 84, 65, 76, Char_Colon, Char_Colon>>,
     PASS |-> <<80, 65, 83, 83, Char_Colon, Char_Colon>>,
     FAIL |-> <<70, 65, 73, 76, Char_Colon, Char_Colon>>,
     MIR |-> <<77, 73, 82, Char_Colon, Char_Colon>>,
     TSF |-> <<84, 83, 70, Char_Colon, Char_Colon>>,
     TTF |-> <<84, 84, 70, Char_Colon, Char_Colon>>]

\* "%-<width>s", "%-<width>u": left-justified, filled with spaces up to the width
PadRight(text, width) ==
    IF Len(text) < width THEN text \o [i \in 1..(width - Len(text)) |-> Char_Space]
    ELSE text

\* "%0<width>u": filled with zeros on the left up to the width
PadZero(text, width) ==
    IF Len(text) < width THEN [i \in 1..(width - Len(text)) |-> Char_Zero] \o text
    ELSE text

\* "%u" of (unsigned int)x for a uint32 x
Uint32Text(x) == UnsignedText(<<0, 0, x.hi, x.lo>>, 10)

\* "  <label>%-4u"
SummaryField(Label, x) == <<Char_Space, Char_Space>> \o Label \o PadRight(Uint32Text(x), 4)

\* the first snprintf: "%-22s ABORT::%-4u  WARN::%-4u  FLOW::%-4u  DEBUG::%-4u  N/A::%-4u"
SummaryInfoText(TestCounters) ==
    Truncate(PadRight(<<>>, 22) \o <<Char_Space>> \o SummaryLabel.ABORT
                 \o PadRight(Uint32Text(TestCounters.CaseCount[UTASSERT_CASETYPE_ABORT]), 4)
                 \o SummaryField(SummaryLabel.WARN, TestCounters.CaseCount[UTASSERT_CASETYPE_WARN])
                 \o SummaryField(SummaryLabel.FLOW, TestCounters.CaseCount[UTASSERT_CASETYPE_FLOW])
                 \o SummaryField(SummaryLabel.DEBUG, TestCounters.CaseCount[UTASSERT_CASETYPE_DEBUG])
                 \o SummaryField(SummaryLabel.NA, TestCounters.CaseCount[UTASSERT_CASETYPE_NA]),
             ReportBufferSize)

\* the second snprintf:
\* "%02u %-20s TOTAL::%-4u  PASS::%-4u  FAIL::%-4u  MIR::%-4u  TSF::%-4u  TTF::%-4u"
SummaryEndText(SegmentName, TestCounters) ==
    Truncate(PadZero(Uint32Text(TestCounters.TestSegmentCount), 2) \o <<Char_Space>>
                 \o PadRight(SegmentName, 20) \o <<Char_Space>> \o SummaryLabel.TOTAL
                 \o PadRight(Uint32Text(TestCounters.TotalTestCases), 4)
                 \o SummaryField(SummaryLabel.PASS, TestCounters.CaseCount[UTASSERT_CASETYPE_PASS])
                 \o SummaryField(SummaryLabel.FAIL, TestCounters.CaseCount[UTASSERT_CASETYPE_FAILURE])
                 \o SummaryField(SummaryLabel.MIR, TestCounters.CaseCount[UTASSERT_CASETYPE_MIR])
                 \o SummaryField(SummaryLabel.TSF, TestCounters.CaseCount[UTASSERT_CASETYPE_TSF])
                 \o SummaryField(SummaryLabel.TTF, TestCounters.CaseCount[UTASSERT_CASETYPE_TTF]),
             ReportBufferSize)

\* UtAssert_DoTestSegmentReport: the INFO line and the END line, each the text left
\* in ReportBuffer
SegmentReport(SegmentName, TestCounters) ==
    << [kind |-> "summary_info", MessageType |-> UTASSERT_CASETYPE_INFO, SegmentNum |-> Zero32,
        TestSeq |-> Zero32, Name |-> SummaryInfoText(TestCounters)],
       [kind |-> "summary_end", MessageType |-> UTASSERT_CASETYPE_END, SegmentNum |-> Zero32,
        TestSeq |-> Zero32,
        Name |-> SummaryEndText(SegmentName, TestCounters)] >>

-----------------------------------------------------------------------------
(* UtAssert_StringBufCompare.  A size_t is kept as the representative of   *)
(* its residue modulo 2^64 nearest to zero, so SIZE_MAX is -1.             *)

Char_NUL == 0
Char_Newline == 10
ScrubbedStringSize == 256
UTASSERT_STRINGBUF_NULL_TERM == -1

\* a < b on size_t
LtSize(a, b) == IF (a < 0) = (b < 0) THEN a < b ELSE b < 0

\* memchr(bytes, ch, n) - bytes: the offset of the first ch among the first n bytes,
\* -1 when memchr returns NULL
MemChr(bytes, ch, n) ==
    LET Last == IF LtSize(n, Len(bytes)) THEN n ELSE Len(bytes)
        Hits == {i \in 1..Last : bytes[i] = ch}
    IN IF Hits = {} THEN -1
       ELSE (CHOOSE i \in Hits : \A j \in Hits : i <= j) - 1

\* strlen(bytes)
StrLen(bytes) == MemChr(bytes, Char_NUL, Len(bytes))

\* memcmp(b1, b2, n): the sign of the first difference of unsigned char
MemCmp(b1, b2, n) ==
    LET Diffs == {i \in 1..n : b1[i] # b2[i]}
    IN IF Diffs = {} THEN 0
       ELSE LET i == CHOOSE k \in Diffs : \A j \in Diffs : k <= j
            IN IF b1[i] < b2[i] THEN -1 ELSE 1

\* lines 586-613 (and 615-635): the end of the string and FormatLen
StringBufCompare_FormatLen(String, StringMax) ==
    LET EndPtr == IF String.null THEN -1
                  ELSE IF StringMax = UTASSERT_STRINGBUF_NULL_TERM
                       THEN StrLen(String.bytes)
                       ELSE MemChr(String.bytes, Char_NUL, StringMax)
    IN IF EndPtr # -1 THEN EndPtr ELSE StringMax

\* the bytes of String the length search reads
StringBufCompare_SearchExtent(String, StringMax) ==
    IF String.null THEN 0
    ELSE IF StringMax = UTASSERT_STRINGBUF_NULL_TERM THEN StrLen(String.bytes) + 1
    ELSE IF MemChr(String.bytes, Char_NUL, StringMax) # -1
         THEN MemChr(String.bytes, Char_NUL, StringMax) + 1
         ELSE StringMax

\* lines 645-652: the length handed to memcmp
StringBufCompare_CompareLen(FormatLen1, FormatLen2) ==
    IF LtSize(FormatLen1, FormatLen2) THEN FormatLen1 ELSE FormatLen2

\* lines 637-664.  At line 662 the difference of the two size_t lengths is stored in
\* the int Compare: its low 32 bits, read as a two's complement number
StringBufCompare_Compare(String1, FormatLen1, String2, FormatLen2) ==
    IF FormatLen1 = 0 /\ FormatLen2 = 0 THEN 0
    ELSE LET Compare == MemCmp(String1.bytes, String2.bytes,
                               StringBufCompare_CompareLen(FormatLen1, FormatLen2))
             lo == (FormatLen1 % LimbBase) - (FormatLen2 % LimbBase)
             hi == ((FormatLen1 \div LimbBase) - (FormatLen2 \div LimbBase)
                       + (lo \div LimbBase)) % LimbBase
             Difference == (IF hi >= SignBit THEN hi - LimbBase ELSE hi) * LimbBase
                               + (lo % LimbBase)
         IN IF Compare = 0 THEN Difference ELSE Compare

\* lines 666-689: the switch on CompareType, the pattern of the UtAssert_Compare_t value
StringBufCompare_Result(Compare, CompareType) ==
    CASE CompareType = ToUint32(UtAssert_Compare_EQ) -> Compare = 0
      [] CompareType = ToUint32(UtAssert_Compare_NEQ) -> Compare # 0
      [] CompareType = ToUint32(UtAssert_Compare_LT) -> Compare < 0
      [] CompareType = ToUint32(UtAssert_Compare_GT) -> Compare > 0
      [] CompareType = ToUint32(UtAssert_Compare_LTEQ) -> Compare <= 0
      [] CompareType = ToUint32(UtAssert_Compare_GTEQ) -> Compare >= 0
      [] OTHER -> FALSE

\* lines 693-700 (and 704-711): the number of bytes memcpy copies to the scratch buffer
StringBufCompare_CopyLen(String, FormatLen) ==
    IF FormatLen = 0 THEN 0
    ELSE IF MemChr(String.bytes, Char_Newline, FormatLen) # -1
         THEN MemChr(String.bytes, Char_Newline, FormatLen)
         ELSE FormatLen

\* a NULL pointer is handed to memcmp (lines 647, 651: whenever the two lengths are
\* not both zero, also with a length of zero) or to memchr and memcpy (lines 693-700
\* and 704-711: when its own length is not zero)
StringBufCompare_ReadsNull(String, FormatLen, BothEmpty) ==
    String.null /\ (~BothEmpty \/ FormatLen # 0)

\* lines 700-702 (and 711-713): memcpy of CopyLen bytes into the 256-byte scratch
\* array and the NUL stored at index CopyLen; one of them lies past the array
StringBufCompare_WritesPast(CopyLen) == ~LtSize(CopyLen, ScrubbedStringSize)

\* the number of leading bytes of String the call reads where its behaviour is
\* defined: the length search, memcmp, the search for a newline and memcpy
StringBufCompare_ReadExtent(String, StringMax, FormatLen, OtherLen) ==
    LET Search == StringBufCompare_SearchExtent(String, StringMax)
        Cmp == IF FormatLen = 0 /\ OtherLen = 0 THEN 0
               ELSE StringBufCompare_CompareLen(FormatLen, OtherLen)
        Newline == IF FormatLen = 0 THEN 0
                   ELSE IF MemChr(String.bytes, Char_Newline, FormatLen) # -1
                        THEN MemChr(String.bytes, Char_Newline, FormatLen) + 1
                        ELSE FormatLen
        Copy == StringBufCompare_CopyLen(String, FormatLen)
        Reads == {Search, Cmp, Newline, Copy}
    IN CHOOSE x \in Reads : \A y \in Reads : ~LtSize(x, y)

-----------------------------------------------------------------------------
(* Thread frames *)

IdleFrame ==
    [op |-> "none", Expression |-> FALSE, CaseTypeArg |-> 0, CaseType |-> 0,
     SegmentName |-> <<>>, TestSegmentCount |-> Zero32, TotalTestCases |-> Zero32,
     SegmentValid |-> FALSE, Local_SegmentCounters |-> NoCounters,
     Local_SegmentName |-> <<>>, out |-> <<>>, ret |-> FALSE,
     found |-> [begun |-> FALSE, cases |-> 0], cmp |-> <<>>,
     got |-> [ref |-> "none", name |-> <<>>, count |-> Zero32, counters |-> NoCounters]]

NoCall == [thread |-> NoThread, frame |-> IdleFrame]

\* a thread may start a call when it is in no call
AtRest(t) == pc[t] = "idle"

\* the function returns to its caller: its frame is gone, its effects are on record
ReturnFrom(t, f) ==
    /\ pc' = [pc EXCEPT ![t] = "idle"]
    /\ frame' = [frame EXCEPT ![t] = IdleFrame]
    /\ returned' = [thread |-> t, frame |-> f]

\* faulty variant: the lock excludes nobody
LockAvailable_Always == TRUE

\* UT_BSP_Lock returns only when the mutex is free
LockAvailable == lock = NoThread

\* faulty variant: UT_BSP_Unlock leaves the mutex with its owner
Released_Kept(t) == lock

\* UT_BSP_Unlock
Released(t) == IF lock = t THEN NoThread ELSE lock

EmptyLog(begun, before) ==
    [begun |-> begun, before |-> before, cases |-> 0, failures |-> 0, outOfRange |-> 0]

ZeroSums ==
    [TestSegmentCount |-> Zero32, TotalTestCases |-> Zero32, OutOfRange |-> Zero32,
     CaseCount |-> [c \in CaseTypes |-> Zero32]]

\* no pure helper is being applied
NoApplication == [fn |-> "none"]

-----------------------------------------------------------------------------
Init ==
    /\ DefaultContext = UTASSERT_CASETYPE_FAILURE
    /\ UT_SegmentCounters = ZeroCounters
    /\ UT_TotalCounters = ZeroCounters
    /\ CurrentSegment = <<>>
    /\ lock = NoThread
    /\ pc = [t \in Threads |-> "idle"]
    /\ frame = [t \in Threads |-> IdleFrame]
    /\ calls = 0
    /\ Finalized = ZeroSums
    /\ log = EmptyLog(FALSE, ZeroCounters)
    /\ issued = <<>>
    /\ returned = NoCall
    /\ pure = NoApplication
    /\ build = LP64

-----------------------------------------------------------------------------
(* UtAssert_SetContext *)

UtAssert_SetContext(t, Context) ==
    /\ AtRest(t)
    /\ calls < MaxCalls
    /\ calls' = calls + 1
    /\ DefaultContext' = Context
    /\ ReturnFrom(t, [IdleFrame EXCEPT !.op = "UtAssert_SetContext",
                                       !.CaseTypeArg = Context])
    /\ UNCHANGED <<build, pure, UT_SegmentCounters, UT_TotalCounters, CurrentSegment, lock,
                   Finalized, log, issued>>

-----------------------------------------------------------------------------
(* UtAssertEx and UtAssert *)

\* UT_BSP_Lock and lines 214-224 of the call whose arguments are in frame f
Enter(t, f) ==
    /\ LockAvailable
    /\ lock' = t
    /\ LET CaseType == ResolveCaseType(f.Expression, f.CaseType)
       IN /\ UT_SegmentCounters' = RecordCase(UT_SegmentCounters, CaseType)
          /\ frame' = [frame EXCEPT ![t] = [f EXCEPT !.CaseType = CaseType]]
          /\ log' = [log EXCEPT
                        !.cases = @ + 1,
                        !.failures = IF ~f.Expression
                                        /\ f.CaseTypeArg = UTASSERT_CASETYPE_FAILURE
                                     THEN @ + 1 ELSE @,
                        !.outOfRange = IF CaseTypeInRange(CaseType) THEN @ ELSE @ + 1]
    /\ pc' = [pc EXCEPT ![t] = "ex_snap"]
    /\ UNCHANGED <<build, pure, DefaultContext, UT_TotalCounters, CurrentSegment, Finalized, issued>>

\* UtAssertEx(Expression, CaseType, ...): entry, UT_BSP_Lock, lines 214-224
UtAssertEx_Enter(t, Expression, CaseType) ==
    /\ AtRest(t)
    /\ calls < MaxCalls
    /\ calls' = calls + 1
    /\ returned' = NoCall
    /\ Enter(t, [IdleFrame EXCEPT !.op = "UtAssertEx", !.Expression = Expression,
                                  !.CaseTypeArg = CaseType, !.CaseType = CaseType])

\* UtAssert: the argument UtAssert_GetContext() is evaluated before UtAssertEx is entered
UtAssert_GetContext(t, Expression) ==
    /\ AtRest(t)
    /\ calls < MaxCalls
    /\ calls' = calls + 1
    /\ pc' = [pc EXCEPT ![t] = "ua_call"]
    /\ frame' = [frame EXCEPT ![t] = [IdleFrame EXCEPT !.op = "UtAssert",
                     !.Expression = Expression, !.CaseTypeArg = DefaultContext,
                     !.CaseType = DefaultContext]]
    /\ returned' = NoCall
    /\ UNCHANGED <<build, pure, DefaultContext, UT_SegmentCounters, UT_TotalCounters, CurrentSegment,
                   lock, Finalized, log, issued>>

\* UtAssert: the call of UtAssertEx, up to line 224
UtAssert_Enter(t) ==
    /\ pc[t] = "ua_call"
    /\ Enter(t, frame[t])
    /\ UNCHANGED <<calls, returned>>

\* lines 226-229
UtAssertEx_Snapshot(t) ==
    /\ pc[t] = "ex_snap"
    /\ frame' = [frame EXCEPT ![t].TestSegmentCount = NextSegmentOrdinal(UT_TotalCounters),
                              ![t].TotalTestCases = UT_SegmentCounters.TotalTestCases]
    /\ issued' = Append(issued, [SegmentNum |-> NextSegmentOrdinal(UT_TotalCounters),
                                 TestSeq |-> UT_SegmentCounters.TotalTestCases])
    /\ lock' = Released(t)
    /\ pc' = [pc EXCEPT ![t] = "ex_report"]
    /\ UNCHANGED <<build, pure, DefaultContext, UT_SegmentCounters, UT_TotalCounters, CurrentSegment,
                   calls, Finalized, log, returned>>

\* lines 231-237
UtAssertEx_Report(t) ==
    /\ pc[t] = "ex_report"
    /\ ReturnFrom(t, [frame[t] EXCEPT
                    !.out = Append(@, CaseLine(frame[t].TestSegmentCount,
                                               frame[t].TotalTestCases,
                                               frame[t].CaseType)),
                    !.ret = UtAssertEx_Result(frame[t].Expression, frame[t].CaseType)])
    /\ UNCHANGED <<build, pure, DefaultContext, UT_SegmentCounters, UT_TotalCounters, CurrentSegment,
                   lock, calls, Finalized, log, issued>>

-----------------------------------------------------------------------------
(* UtAssert_BeginTest *)

\* faulty variant: the segment aggregate is not cleared
UtAssert_BeginTest_Enter_Keep(t, SegmentName) ==
    /\ AtRest(t)
    /\ calls < MaxCalls
    /\ calls' = calls + 1
    /\ LockAvailable
    /\ lock' = t
    /\ UT_SegmentCounters' = UT_SegmentCounters
    /\ frame' = [frame EXCEPT ![t] = [IdleFrame EXCEPT
                     !.op = "UtAssert_BeginTest",
                     !.SegmentName = SegmentName,
                     !.found = [begun |-> log.begun, cases |-> log.cases]]]
    /\ log' = EmptyLog(TRUE, UT_TotalCounters)
    /\ issued' = <<>>
    /\ pc' = [pc EXCEPT ![t] = "begin_name"]
    /\ returned' = NoCall
    /\ UNCHANGED <<build, pure, DefaultContext, UT_TotalCounters, CurrentSegment, Finalized>>

\* entry, UT_BSP_Lock, line 132
UtAssert_BeginTest_Enter(t, SegmentName) ==
    /\ AtRest(t)
    /\ calls < MaxCalls
    /\ calls' = calls + 1
    /\ LockAvailable
    /\ lock' = t
    /\ UT_SegmentCounters' = ZeroCounters
    /\ frame' = [frame EXCEPT ![t] = [IdleFrame EXCEPT
                     !.op = "UtAssert_BeginTest",
                     !.SegmentName = SegmentName,
                     !.found = [begun |-> log.begun, cases |-> log.cases]]]
    /\ log' = EmptyLog(TRUE, UT_TotalCounters)
    /\ issued' = <<>>
    /\ pc' = [pc EXCEPT ![t] = "begin_name"]
    /\ returned' = NoCall
    /\ UNCHANGED <<build, pure, DefaultContext, UT_TotalCounters, CurrentSegment, Finalized>>

\* lines 133-137
UtAssert_BeginTest_Name(t) ==
    /\ pc[t] = "begin_name"
    /\ CurrentSegment' = StoreSegmentName(frame[t].SegmentName)
    /\ frame' = [frame EXCEPT ![t].TestSegmentCount = NextSegmentOrdinal(UT_TotalCounters)]
    /\ lock' = Released(t)
    /\ pc' = [pc EXCEPT ![t] = "begin_notify"]
    /\ UNCHANGED <<build, pure, DefaultContext, UT_SegmentCounters, UT_TotalCounters, calls, Finalized,
                   log, issued, returned>>

\* line 139
UtAssert_BeginTest_Notify(t) ==
    /\ pc[t] = "begin_notify"
    /\ ReturnFrom(t, [frame[t] EXCEPT !.out = Append(@, StartLine(frame[t].TestSegmentCount,
                                                                  frame[t].SegmentName))])
    /\ UNCHANGED <<build, pure, DefaultContext, UT_SegmentCounters, UT_TotalCounters, CurrentSegment,
                   lock, calls, Finalized, log, issued>>

-----------------------------------------------------------------------------
(* UtAssert_EndTest *)

\* entry, UT_BSP_Lock, lines 156-173
UtAssert_EndTest_Enter(t) ==
    /\ AtRest(t)
    /\ calls < MaxCalls
    /\ calls' = calls + 1
    /\ LockAvailable
    /\ lock' = t
    /\ LET SegmentValid == SegmentIsValid(UT_SegmentCounters)
           NewTotal == FoldTotal(UT_TotalCounters, UT_SegmentCounters)
           Snapshot == SnapshotSegment(NewTotal, UT_SegmentCounters)
       IN /\ UT_TotalCounters' = IF SegmentValid THEN NewTotal ELSE UT_TotalCounters
          /\ UT_SegmentCounters' = IF SegmentValid THEN Snapshot ELSE UT_SegmentCounters
          /\ frame' = [frame EXCEPT ![t] = [IdleFrame EXCEPT
                          !.op = "UtAssert_EndTest",
                          !.found = [begun |-> log.begun, cases |-> log.cases],
                          !.SegmentValid = SegmentValid,
                          !.Local_SegmentCounters = IF SegmentValid THEN Snapshot ELSE @,
                          !.Local_SegmentName = IF SegmentValid THEN CurrentSegment ELSE @]]
          /\ Finalized' =
                IF log.cases > 0
                THEN [TestSegmentCount |-> Add32(Finalized.TestSegmentCount, One32),
                      TotalTestCases |-> Add32(Finalized.TotalTestCases,
                                               UT_SegmentCounters.TotalTestCases),
                      OutOfRange |-> Add32(Finalized.OutOfRange, ToUint32(log.outOfRange)),
                      CaseCount |-> [c \in CaseTypes |->
                          Add32(Finalized.CaseCount[c], UT_SegmentCounters.CaseCount[c])]]
                ELSE Finalized
    /\ pc' = [pc EXCEPT ![t] = "end_clear"]
    /\ returned' = NoCall
    /\ UNCHANGED <<build, pure, DefaultContext, CurrentSegment, log, issued>>

\* lines 175-177
UtAssert_EndTest_Clear(t) ==
    /\ pc[t] = "end_clear"
    /\ UT_SegmentCounters' = ZeroCounters
    /\ log' = EmptyLog(FALSE, UT_TotalCounters)
    /\ issued' = <<>>
    /\ lock' = Released(t)
    /\ pc' = [pc EXCEPT ![t] = "end_report"]
    /\ UNCHANGED <<build, pure, DefaultContext, UT_TotalCounters, CurrentSegment, frame, calls,
                   Finalized, returned>>

\* faulty variant: the summary is printed from the shared objects
UtAssert_EndTest_Report_Live(t) ==
    /\ pc[t] = "end_report"
    /\ ReturnFrom(t, [frame[t] EXCEPT !.out =
                    IF frame[t].SegmentValid
                    THEN @ \o SegmentReport(CurrentSegment, UT_SegmentCounters)
                    ELSE Append(@, NoTestCasesLine)])
    /\ UNCHANGED <<build, pure, DefaultContext, UT_SegmentCounters, UT_TotalCounters, CurrentSegment,
                   lock, calls, Finalized, log, issued>>

\* lines 179-186
UtAssert_EndTest_Report(t) ==
    /\ pc[t] = "end_report"
    /\ ReturnFrom(t, [frame[t] EXCEPT !.out =
                    IF frame[t].SegmentValid
                    THEN @ \o SegmentReport(frame[t].Local_SegmentName,
                                            frame[t].Local_SegmentCounters)
                    ELSE Append(@, NoTestCasesLine)])
    /\ UNCHANGED <<build, pure, DefaultContext, UT_SegmentCounters, UT_TotalCounters, CurrentSegment,
                   lock, calls, Finalized, log, issued>>

-----------------------------------------------------------------------------------------------------------------------------------------------------
(* The read-only queries.  They take no lock, so a read can overlap the    *)
(* stores another thread makes inside its critical section; such a read is *)
(* a data race, and gives each cell either as it was before the store or   *)
(* as it is after.  UtAssert_GetCounters and UtAssert_GetSegmentName read  *)
(* nothing themselves: they return the address of the live object, and     *)
(* got holds what the caller copies through that address when the call     *)
(* returns.  A read through the same address later is one more such copy.  *)

\* the cumulative aggregate as it was before the fold under way: line 159 added one,
\* lines 161-165 added the cells of the segment aggregate
TotalBeforeFold ==
    [TestSegmentCount |-> Sub32(UT_TotalCounters.TestSegmentCount, One32),
     TotalTestCases |-> Sub32(UT_TotalCounters.TotalTestCases,
                              UT_SegmentCounters.TotalTestCases),
     CaseCount |-> [c \in CaseTypes |-> Sub32(UT_TotalCounters.CaseCount[c],
                                              UT_SegmentCounters.CaseCount[c])]]

\* what an unlocked read of UT_TotalCounters can give: the object as it is, or, while
\* a thread is between UT_BSP_Lock and UT_BSP_Unlock of UtAssert_EndTest with a
\* segment to fold (lines 157-165), any choice of old and new cells
VisibleTotals ==
    IF \A u \in Threads : ~(pc[u] = "end_clear" /\ frame[u].SegmentValid)
    THEN {UT_TotalCounters}
    ELSE LET Changed == {c \in CaseTypes : UT_SegmentCounters.CaseCount[c] # Zero32}
         IN {[TestSegmentCount |-> IF a THEN UT_TotalCounters.TestSegmentCount
                                   ELSE TotalBeforeFold.TestSegmentCount,
              TotalTestCases |-> IF b THEN UT_TotalCounters.TotalTestCases
                                 ELSE TotalBeforeFold.TotalTestCases,
              CaseCount |-> [c \in CaseTypes |->
                                IF c \in S THEN UT_TotalCounters.CaseCount[c]
                                ELSE TotalBeforeFold.CaseCount[c]]] :
                a \in BOOLEAN, b \in BOOLEAN, S \in SUBSET Changed}

\* the C strings a buffer can show whose bytes are each taken from either of two
\* contents: of any length n at which one of the two has a NUL (or the buffer ends)
\* and below which not both have one, with any choice where the two differ
MixedNames(old, new) ==
    LET Last == CurrentSegmentSize - 1
        Ends == {n \in 0..Last :
                    /\ n = Last \/ old[n + 1] = Char_NUL \/ new[n + 1] = Char_NUL
                    /\ \A i \in 1..n : old[i] # Char_NUL \/ new[i] # Char_NUL}
        Either(n) == {i \in 1..n : old[i] # Char_NUL /\ new[i] # Char_NUL
                                      /\ old[i] # new[i]}
    IN UNION {{[i \in 1..n |-> IF old[i] = Char_NUL THEN new[i]
                               ELSE IF new[i] = Char_NUL THEN old[i]
                               ELSE IF i \in S THEN new[i] ELSE old[i]] :
                  S \in SUBSET Either(n)} : n \in Ends}

\* what an unlocked read of the string at CurrentSegment can give: the name as it
\* is, or, while a thread is between UT_BSP_Lock and UT_BSP_Unlock of
\* UtAssert_BeginTest (lines 132-135), any mixture of the old and the new bytes.
\* NameBytes are the first 63 bytes of the array; the 64th is always NUL.
VisibleNames ==
    LET NameBytes(name) ==
            [i \in 1..(CurrentSegmentSize - 1) |->
                IF i <= Len(name) THEN name[i] ELSE Char_NUL]
        Naming == {u \in Threads : pc[u] = "begin_name"}
    IN IF Naming = {} THEN {CurrentSegment}
       ELSE UNION {MixedNames(NameBytes(CurrentSegment),
                              NameBytes(StoreSegmentName(frame[u].SegmentName))) :
                      u \in Naming}

Query(t, f) ==
    /\ AtRest(t)
    /\ calls < MaxCalls
    /\ calls' = calls + 1
    /\ ReturnFrom(t, f)
    /\ UNCHANGED <<build, pure, DefaultContext, UT_SegmentCounters, UT_TotalCounters,
                   CurrentSegment, lock, Finalized, log, issued>>

\* faulty variant: the cases of the segment in progress are counted in
UtAssert_GetPassCount_Live(t) ==
    Query(t, [IdleFrame EXCEPT
                 !.op = "UtAssert_GetPassCount",
                 !.got.count = Add32(UT_TotalCounters.CaseCount[UTASSERT_CASETYPE_PASS],
                                     UT_SegmentCounters.CaseCount[UTASSERT_CASETYPE_PASS])])

\* lines 111-114: return UT_TotalCounters.CaseCount[UTASSERT_CASETYPE_PASS]
UtAssert_GetPassCount(t) ==
    \E v \in VisibleTotals :
        Query(t, [IdleFrame EXCEPT
                     !.op = "UtAssert_GetPassCount",
                     !.got.count = v.CaseCount[UTASSERT_CASETYPE_PASS]])

\* lines 116-119: return UT_TotalCounters.CaseCount[UTASSERT_CASETYPE_FAILURE]
UtAssert_GetFailCount(t) ==
    \E v \in VisibleTotals :
        Query(t, [IdleFrame EXCEPT
                     !.op = "UtAssert_GetFailCount",
                     !.got.count = v.CaseCount[UTASSERT_CASETYPE_FAILURE]])

\* lines 121-124: return &UT_TotalCounters
UtAssert_GetCounters(t) ==
    \E v \in VisibleTotals :
        Query(t, [IdleFrame EXCEPT !.op = "UtAssert_GetCounters",
                                   !.got.ref = "UT_TotalCounters",
                                   !.got.counters = v])

\* lines 142-145: return CurrentSegment
UtAssert_GetSegmentName(t) ==
    \E v \in VisibleNames :
        Query(t, [IdleFrame EXCEPT !.op = "UtAssert_GetSegmentName",
                                   !.got.ref = "CurrentSegment",
                                   !.got.name = v])

-----
(* UtAssert_Message and UtAssert_Abort: no lock, no counter, one text *)

UtAssert_Message(t, MessageType, File, Line, Text) ==
    /\ AtRest(t)
    /\ calls < MaxCalls
    /\ calls' = calls + 1
    /\ ReturnFrom(t, [IdleFrame EXCEPT
                        !.op = "UtAssert_Message",
                        !.CaseTypeArg = MessageType,
                        !.out = <<TextLine(ToUint8(MessageType),
                                           Message_FinalMessage(File, Line, Text))>>])
    /\ UNCHANGED <<build, pure, DefaultContext, UT_SegmentCounters, UT_TotalCounters,
                   CurrentSegment, lock, Finalized, log, issued>>

\* faulty variant: the abort is recorded as a case of the segment
UtAssert_Abort_Recorded(t, Message) ==
    /\ AtRest(t)
    /\ calls < MaxCalls
    /\ calls' = calls + 1
    /\ UT_SegmentCounters' = RecordCase(UT_SegmentCounters, UTASSERT_CASETYPE_ABORT)
    /\ ReturnFrom(t, [IdleFrame EXCEPT
                        !.op = "UtAssert_Abort",
                        !.out = <<TextLine(UTASSERT_CASETYPE_ABORT, Message)>>])
    /\ UNCHANGED <<build, pure, DefaultContext, UT_TotalCounters,
                   CurrentSegment, lock, Finalized, log, issued>>

UtAssert_Abort(t, Message) ==
    /\ AtRest(t)
    /\ calls < MaxCalls
    /\ calls' = calls + 1
    /\ ReturnFrom(t, [IdleFrame EXCEPT
                        !.op = "UtAssert_Abort",
                        !.out = <<TextLine(UTASSERT_CASETYPE_ABORT, Message)>>])
    /\ UNCHANGED <<build, pure, DefaultContext, UT_SegmentCounters, UT_TotalCounters,
                   CurrentSegment, lock, Finalized, log, issued>>

-----------------------------------------------------------------------------
(* The typed comparisons: the comparison is made, then UtAssertEx is       *)
(* called with its result and the classification FAILURE.                  *)

\* the CaseType argument at lines 567 and 715
Compare_CaseType == UTASSERT_CASETYPE_FAILURE

\* line 567: the Expression argument
UtAssert_GenericIntegerCompare_Expression(IsUnsigned, ActualValue, CompareType, RefValue) ==
    UtAssert_DoCompare(ConvertTo(Type_intmax_t, ActualValue), CompareType, RefValue,
                       IsUnsigned)

\* lines 370-376: the arguments become UT_IntCheck_t
UtAssert_GenericUnsignedCompare_Expression(ActualValue, CompareType, ReferenceValue) ==
    UtAssert_GenericIntegerCompare_Expression(TRUE, ConvertTo(UT_IntCheck_t, ActualValue),
        CompareType, ConvertTo(UT_IntCheck_t, ReferenceValue))

\* lines 378-384
UtAssert_GenericSignedCompare_Expression(ActualValue, CompareType, ReferenceValue) ==
    UtAssert_GenericIntegerCompare_Expression(FALSE, ConvertTo(UT_IntCheck_t, ActualValue),
        CompareType, ConvertTo(UT_IntCheck_t, ReferenceValue))

\* lines 586-689: the Expression argument at line 715
UtAssert_StringBufCompare_Expression(String1, String1Max, String2, String2Max, CompareType) ==
    LET FormatLen1 == StringBufCompare_FormatLen(String1, String1Max)
        FormatLen2 == StringBufCompare_FormatLen(String2, String2Max)
    IN StringBufCompare_Result(
           StringBufCompare_Compare(String1, FormatLen1, String2, FormatLen2), CompareType)

\* a call of UtAssertEx made by the function or macro op, whose own arguments and
\* locals are Locals: the entry, UT_BSP_Lock and lines 214-224
CallUtAssertEx_From(t, op, Locals, Expression, CaseType) ==
    /\ AtRest(t)
    /\ calls < MaxCalls
    /\ calls' = calls + 1
    /\ returned' = NoCall
    /\ Enter(t, [IdleFrame EXCEPT !.op = op, !.cmp = Locals, !.Expression = Expression,
                                  !.CaseTypeArg = CaseType, !.CaseType = CaseType])

CallUtAssertEx(t, op, Expression, CaseType) ==
    CallUtAssertEx_From(t, op, IdleFrame.cmp, Expression, CaseType)

\* lines 370-376 and 503-572, to line 224 of the UtAssertEx called at line 567; the
\* caller's values become the unsigned long parameters
UtAssert_GenericUnsignedCompare(t, Actual, CompareType, Reference) ==
    LET ActualValue == ConvertTo(Type_unsigned_long, Actual)
        ReferenceValue == ConvertTo(Type_unsigned_long, Reference)
    IN CallUtAssertEx_From(t, "UtAssert_GenericUnsignedCompare",
           [ActualValue |-> ActualValue, CompareType |-> CompareType,
            ReferenceValue |-> ReferenceValue],
           UtAssert_GenericUnsignedCompare_Expression(ActualValue, CompareType,
                                                      ReferenceValue),
           Compare_CaseType)

\* lines 378-384 and 503-572, to line 224 of the UtAssertEx called at line 567; the
\* caller's values become the long parameters
UtAssert_GenericSignedCompare(t, Actual, CompareType, Reference) ==
    LET ActualValue == ConvertTo(Type_long, Actual)
        ReferenceValue == ConvertTo(Type_long, Reference)
    IN CallUtAssertEx_From(t, "UtAssert_GenericSignedCompare",
           [ActualValue |-> ActualValue, CompareType |-> CompareType,
            ReferenceValue |-> ReferenceValue],
           UtAssert_GenericSignedCompare_Expression(ActualValue, CompareType,
                                                    ReferenceValue),
           Compare_CaseType)

\* lines 574-716, to line 224 of the UtAssertEx called at line 715.  A NULL pointer
\* handed to memcmp, memchr or memcpy and a write past a scratch array are undefined
\* behaviour.  From the first of them on the call may stop the program (a trap of the
\* sanitizer, a signal: no thread takes another step) before anything is recorded, or go on with locals of any
\* value: any Result, reads of any length after that point.
UtAssert_StringBufCompare(t, String1, String1Max, String2, String2Max, CompareType) ==
    LET FormatLen1 == StringBufCompare_FormatLen(String1, String1Max)
        FormatLen2 == StringBufCompare_FormatLen(String2, String2Max)
        BothEmpty == FormatLen1 = 0 /\ FormatLen2 = 0
        ReadsNull1 == StringBufCompare_ReadsNull(String1, FormatLen1, BothEmpty)
        ReadsNull2 == StringBufCompare_ReadsNull(String2, FormatLen2, BothEmpty)
        CopyLen1 == StringBufCompare_CopyLen(String1, FormatLen1)
        CopyLen2 == StringBufCompare_CopyLen(String2, FormatLen2)
        WritesPast1 == StringBufCompare_WritesPast(CopyLen1)
        WritesPast2 == StringBufCompare_WritesPast(CopyLen2)
        \* undefined from line 647 / 651 on, from line 702 on, at line 713
        AtCompare == ReadsNull1 \/ ReadsNull2
        AtCopy1 == AtCompare \/ WritesPast1
        Undefined == AtCopy1 \/ WritesPast2
        Defined1 == StringBufCompare_ReadExtent(String1, String1Max, FormatLen1, FormatLen2)
        Defined2 == StringBufCompare_ReadExtent(String2, String2Max, FormatLen2, FormatLen1)
        \* the reads of String1 at lines 695-700 follow line 647, those of String2 at
        \* lines 706-711 follow line 702; -1 is a read of SIZE_MAX bytes
        Extents1 == IF AtCompare THEN {Defined1, -1} ELSE {Defined1}
        Extents2 == IF AtCopy1 THEN {Defined2, -1} ELSE {Defined2}
        Locals(e1, e2) ==
            [String1 |-> String1, String1Max |-> String1Max,
             String2 |-> String2, String2Max |-> String2Max, CompareType |-> CompareType,
             FormatLen1 |-> FormatLen1, FormatLen2 |-> FormatLen2,
             ReadsNull1 |-> ReadsNull1, ReadsNull2 |-> ReadsNull2,
             CopyLen1 |-> CopyLen1, CopyLen2 |-> CopyLen2,
             WritesPast1 |-> WritesPast1, WritesPast2 |-> WritesPast2,
             Extent1 |-> e1, Extent2 |-> e2]
        Result == UtAssert_StringBufCompare_Expression(String1, String1Max, String2,
                                                       String2Max, CompareType)
    IN \/ /\ AtRest(t)
          /\ ~Undefined
          /\ CallUtAssertEx_From(t, "UtAssert_StringBufCompare", Locals(Defined1, Defined2),
                                 Result, Compare_CaseType)
       \/ /\ AtRest(t)
          /\ Undefined
          /\ \E b \in BOOLEAN, e1 \in Extents1, e2 \in Extents2 :
                CallUtAssertEx_From(t, "UtAssert_StringBufCompare", Locals(e1, e2), b,
                                    Compare_CaseType)
       \/ /\ AtRest(t)
          /\ calls < MaxCalls
          /\ Undefined
          /\ calls' = calls + 1
          /\ returned' = NoCall
          /\ pc' = [u \in Threads |-> "stopped"]
          /\ frame' = [frame EXCEPT ![t] =
                          [IdleFrame EXCEPT
                              !.op = "UtAssert_StringBufCompare",
                              !.cmp = Locals(Defined1, Defined2),
                              !.Expression = IF AtCompare THEN @ ELSE Result,
                              !.CaseTypeArg = Compare_CaseType,
                              !.CaseType = Compare_CaseType]]
          /\ UNCHANGED <<build, pure, DefaultContext, UT_SegmentCounters, UT_TotalCounters,
                         CurrentSegment, lock, Finalized, log, issued>>

\* lines 715-716 after a write past a scratch array: UtAssertEx has printed the line;
\* the return of UtAssert_StringBufCompare through its overwritten stack frame stops
\* the program (the stack protector)
UtAssert_StringBufCompare_NoReturn(t) ==
    /\ pc[t] = "ex_report"
    /\ frame[t].op = "UtAssert_StringBufCompare"
    /\ frame[t].cmp.WritesPast1 \/ frame[t].cmp.WritesPast2
    /\ pc' = [u \in Threads |-> "stopped"]
    /\ frame' = [frame EXCEPT ![t].out = Append(@, CaseLine(frame[t].TestSegmentCount,
                                                            frame[t].TotalTestCases,
                                                            frame[t].CaseType))]
    /\ UNCHANGED <<build, pure, DefaultContext, UT_SegmentCounters, UT_TotalCounters,
                   CurrentSegment, lock, calls, Finalized, log, issued, returned>>

-----------------------------------------------------------------------------
(* The macros of utassert.h *)

\* UtAssertEx(false, UTASSERT_CASETYPE_NA, ...)
UtAssert_NA(t) == CallUtAssertEx(t, "UtAssert_NA", FALSE, UTASSERT_CASETYPE_NA)

\* UtAssertEx(false, UTASSERT_CASETYPE_MIR, ...)
UtAssert_MIR(t) == CallUtAssertEx(t, "UtAssert_MIR", FALSE, UTASSERT_CASETYPE_MIR)

\* faulty variant: a warning is recorded as a failure
UtAssert_WARN_AsFailure(t) ==
    CallUtAssertEx(t, "UtAssert_WARN", FALSE, UTASSERT_CASETYPE_FAILURE)

\* UtAssertEx(false, UTASSERT_CASETYPE_WARN, ...)
UtAssert_WARN(t) == CallUtAssertEx(t, "UtAssert_WARN", FALSE, UTASSERT_CASETYPE_WARN)

\* faulty variant: the context is not read, FAILURE is passed
ReadContext_Failure == UTASSERT_CASETYPE_FAILURE

\* UtAssert_GetContext(): return DefaultContext
ReadContext == DefaultContext

\* a macro or function that evaluates UtAssert_GetContext() as the CaseType argument
\* of the UtAssertEx call it then makes
EvaluateContext(t, op, Expression) ==
    /\ AtRest(t)
    /\ calls < MaxCalls
    /\ calls' = calls + 1
    /\ pc' = [pc EXCEPT ![t] = "ua_call"]
    /\ frame' = [frame EXCEPT ![t] = [IdleFrame EXCEPT !.op = op,
                     !.Expression = Expression, !.CaseTypeArg = ReadContext,
                     !.CaseType = ReadContext]]
    /\ returned' = NoCall
    /\ UNCHANGED <<build, pure, DefaultContext, UT_SegmentCounters, UT_TotalCounters,
                   CurrentSegment, lock, Finalized, log, issued>>

\* (func, UtAssert(true, #func, __FILE__, __LINE__))
UtAssert_VOIDCALL(t) == EvaluateContext(t, "UtAssert_VOIDCALL", TRUE)

\* UtAssertEx(Expression, UtAssert_GetContext(), ...)
UtAssert_True(t, Expression) == EvaluateContext(t, "UtAssert_True", Expression)

\* UtAssertEx(false, UtAssert_GetContext(), ...)
UtAssert_Failed(t) == EvaluateContext(t, "UtAssert_Failed", FALSE)

\* UtAssert(Expression, ...)
UtAssert_Simple(t, Expression) == EvaluateContext(t, "UtAssert", Expression)

-----------------------------------------------------------------------------
Next ==
    \/ \E t \in Threads, c \in ContextInputs : UtAssert_SetContext(t, c)
    \/ \E t \in Threads, a \in AssertInputs : UtAssertEx_Enter(t, a[1], a[2])
    \/ \E t \in Threads, e \in BOOLEAN : UtAssert_GetContext(t, e)
    \/ \E t \in Threads : UtAssert_Enter(t)
    \/ \E t \in Threads : UtAssertEx_Snapshot(t)
    \/ \E t \in Threads : UtAssertEx_Report(t)
    \/ \E t \in Threads, n \in SegmentNameInputs : UtAssert_BeginTest_Enter(t, n)
    \/ \E t \in Threads : UtAssert_BeginTest_Name(t)
    \/ \E t \in Threads : UtAssert_BeginTest_Notify(t)
    \/ \E t \in Threads : UtAssert_EndTest_Enter(t)
    \/ \E t \in Threads : UtAssert_EndTest_Clear(t)
    \/ \E t \in Threads : UtAssert_EndTest_Report(t)

Spec == Init /\ [][Next]_vars

(* The same program late in a long run: 2^32 - 1 segments of one passing case *)
(* each have been folded in, so the cumulative counters hold their maximum.   *)
AgedCounters ==
    [TestSegmentCount |-> Max32, TotalTestCases |-> Max32,
     CaseCount |-> [c \in CaseTypes |->
                       IF c = UTASSERT_CASETYPE_PASS THEN Max32 ELSE Zero32]]

InitWrap ==
    /\ DefaultContext = UTASSERT_CASETYPE_FAILURE
    /\ UT_SegmentCounters = ZeroCounters
    /\ UT_TotalCounters = AgedCounters
    /\ CurrentSegment = <<>>
    /\ lock = NoThread
    /\ pc = [t \in Threads |-> "idle"]
    /\ frame = [t \in Threads |-> IdleFrame]
    /\ calls = 0
    /\ Finalized = [AgedCounters EXCEPT !.TestSegmentCount = Max32] @@
                   [OutOfRange |-> Zero32]
    /\ log = EmptyLog(FALSE, AgedCounters)
    /\ issued = <<>>
    /\ returned = NoCall
    /\ pure = NoApplication
    /\ build = LP64

SpecWrap == InitWrap /\ [][Next]_vars

(* The program driven through the rest of its interface.  Every driver     *)
(* below has the steps inside UtAssertEx, the segments and the default     *)
(* context, and adds one family of callers.                                *)
NextCore ==
    \/ \E t \in Threads, c \in ContextInputs : UtAssert_SetContext(t, c)
    \/ \E t \in Threads : UtAssertEx_Snapshot(t)
    \/ \E t \in Threads : UtAssertEx_Report(t)
    \/ \E t \in Threads, n \in SegmentNameInputs : UtAssert_BeginTest_Enter(t, n)
    \/ \E t \in Threads : UtAssert_BeginTest_Name(t)
    \/ \E t \in Threads : UtAssert_BeginTest_Notify(t)
    \/ \E t \in Threads : UtAssert_EndTest_Enter(t)
    \/ \E t \in Threads : UtAssert_EndTest_Clear(t)
    \/ \E t \in Threads : UtAssert_EndTest_Report(t)

\* messages and aborts among assertions
NextFacade ==
    \/ NextCore
    \/ \E t \in Threads, e \in BOOLEAN : UtAssert_Simple(t, e)
    \/ \E t \in Threads : UtAssert_Enter(t)
    \/ \E t \in Threads, m \in MessageTypeInputs, f \in FileInputs, l \in LineInputs,
          x \in TextInputs : UtAssert_Message(t, m, f, l, x)
    \/ \E t \in Threads, x \in TextInputs : UtAssert_Abort(t, x)

SpecFacade == Init /\ [][NextFacade]_vars

\* the typed comparisons among changes of the default context, in one segment: a kind
\* the switch of UtAssert_DoCompare has, one it has not; an equal string, a longer one,
\* a NULL one and one as large as a scratch array, each against "ab"
WideBuffer == [i \in 1..ScrubbedStringSize |-> 97]
FacadeIntInputs == {FromInt(-1), FromInt(5)}
NextCompare ==
    \/ \E t \in Threads, c \in ContextInputs : UtAssert_SetContext(t, c)
    \/ \E t \in Threads : UtAssertEx_Snapshot(t)
    \/ \E t \in Threads : UtAssertEx_Report(t)
    \/ \E t \in Threads, a \in FacadeIntInputs,
          k \in {ToUint32(UtAssert_Compare_LT), [hi |-> SignBit, lo |-> UtAssert_Compare_EQ]} :
          UtAssert_GenericUnsignedCompare(t, a, k, FromInt(5))
    \/ \E t \in Threads, a \in FacadeIntInputs,
          k \in {ToUint32(UtAssert_Compare_LT), [hi |-> SignBit, lo |-> UtAssert_Compare_EQ]} :
          UtAssert_GenericSignedCompare(t, a, k, FromInt(5))
    \/ \E t \in Threads,
          a \in {<<Ptr(<<97, 98, Char_NUL>>), UTASSERT_STRINGBUF_NULL_TERM>>,
                 <<Ptr(<<97, 98, 99, Char_NUL>>), 3>>, <<NULL, 2>>,
                 <<Ptr(WideBuffer), ScrubbedStringSize>>} :
          UtAssert_StringBufCompare(t, a[1], a[2], Ptr(<<97, 98, Char_NUL>>),
                                    UTASSERT_STRINGBUF_NULL_TERM,
                                    ToUint32(UtAssert_Compare_EQ))
    \/ \E t \in Threads : UtAssert_StringBufCompare_NoReturn(t)

SpecCompare == Init /\ [][NextCompare]_vars

\* the pseudo-assertions and the void-call logger
NextPseudo ==
    \/ NextCore
    \/ \E t \in Threads : UtAssert_Enter(t)
    \/ \E t \in Threads : UtAssert_VOIDCALL(t)
    \/ \E t \in Threads : UtAssert_NA(t)
    \/ \E t \in Threads : UtAssert_MIR(t)
    \/ \E t \in Threads : UtAssert_WARN(t)

SpecPseudo == Init /\ [][NextPseudo]_vars

\* the assertions that take the default context
NextContext ==
    \/ NextCore
    \/ \E t \in Threads : UtAssert_Enter(t)
    \/ \E t \in Threads, e \in BOOLEAN : UtAssert_Simple(t, e)
    \/ \E t \in Threads, e \in BOOLEAN : UtAssert_True(t, e)
    \/ \E t \in Threads : UtAssert_Failed(t)

SpecContext == Init /\ [][NextContext]_vars

\* the queries among assertions and segments
QueryAssertInputs ==
    {<<TRUE, UTASSERT_CASETYPE_FAILURE>>, <<FALSE, UTASSERT_CASETYPE_FAILURE>>}
NextQuery ==
    \/ NextCore
    \/ \E t \in Threads, a \in QueryAssertInputs : UtAssertEx_Enter(t, a[1], a[2])
    \/ \E t \in Threads : UtAssert_GetPassCount(t)
    \/ \E t \in Threads : UtAssert_GetFailCount(t)
    \/ \E t \in Threads : UtAssert_GetCounters(t)
    \/ \E t \in Threads : UtAssert_GetSegmentName(t)

SpecQuery == Init /\ [][NextQuery]_vars

-----------------------------------------------------------------------------
(* The helpers applied on their own: one application at a time, in every   *)
(* build, with nothing else of the program moving.                         *)

Program == <<DefaultContext, UT_SegmentCounters, UT_TotalCounters, CurrentSegment, lock,
             pc, frame, calls, Finalized, log, issued, returned>>

Min64 == <<SignBit, 0, 0, 0>>
Max64 == <<SignBit - 1, LimbTop, LimbTop, LimbTop>>
IntInputs ==
    {FromInt(0), FromInt(1), FromInt(4), FromInt(5), FromInt(6), FromInt(-1), FromInt(-6),
     Min64, Max64, <<0, 1, 0, 0>>, <<0, 0, LimbTop, LimbTop>>, <<0, 0, SignBit, 0>>}
\* the enumerators, the two values after them, and values whose top bit the shift of
\* UT_COMPARE_TYPE loses
CompareTypeInputs ==
    {ToUint32(k) : k \in UtAssert_Compare_NONE..(UtAssert_Compare_BITMASK_UNSET + 2)}
        \cup {[hi |-> SignBit, lo |-> k] :
                 k \in {UtAssert_Compare_NONE, UtAssert_Compare_EQ,
                        UtAssert_Compare_BITMASK_UNSET}}
        \cup {Max32}

Apply_DoCompare(ActualValueIn, CompareType, ReferenceValueIn, IsUnsigned) ==
    /\ pure = NoApplication
    /\ pure' = [fn |-> "UtAssert_DoCompare", ActualValueIn |-> ActualValueIn,
                CompareType |-> CompareType, ReferenceValueIn |-> ReferenceValueIn,
                IsUnsigned |-> IsUnsigned,
                Result |-> UtAssert_DoCompare(ActualValueIn, CompareType,
                                              ReferenceValueIn, IsUnsigned)]
    /\ UNCHANGED <<Program, build>>

ValueInputs == IntInputs \cup {FromInt(8), FromInt(255)}
RadixInputs ==
    {UtAssert_Radix_DEFAULT, UtAssert_Radix_BOOLEAN, UtAssert_Radix_OCTAL,
     UtAssert_Radix_DECIMAL, UtAssert_Radix_HEX, UtAssert_Radix_HEX + 1}

\* UtAssert_GetValueText as UtAssert_GenericIntegerCompare calls it, with a buffer
\* of 32 characters
Apply_GetValueText(InValue, IsUnsigned, RadixType) ==
    /\ pure = NoApplication
    /\ pure' = [fn |-> "UtAssert_GetValueText", InValue |-> InValue,
                IsUnsigned |-> IsUnsigned, RadixType |-> RadixType,
                Text |-> UtAssert_GetValueText(ValueTextSize, InValue, IsUnsigned,
                                               RadixType)]
    /\ UNCHANGED <<Program, build>>

StringInputs ==
    {NULL, Ptr(<<Char_NUL>>), Ptr(<<97, 98, Char_NUL>>), Ptr(<<97, 98, 99, Char_NUL>>),
     Ptr(<<97, 98>>), Ptr(<<97, 98, 99>>), Ptr(<<97, Char_Newline, 98, Char_NUL>>),
     Ptr(<<97, Char_Newline, 99, Char_NUL>>), Ptr(<<200, Char_NUL>>), Ptr(WideBuffer)}
MaxInputs == {UTASSERT_STRINGBUF_NULL_TERM, 0, 1, 2, 3, 4, ScrubbedStringSize}

\* the arguments a caller can pass for one string: NULL with any size, a buffer that
\* holds a NUL with the null-terminated marker, a buffer with a size it has
StringArgs ==
    {a \in StringInputs \X MaxInputs :
        \/ a[1].null
        \/ a[2] = UTASSERT_STRINGBUF_NULL_TERM /\ StrLen(a[1].bytes) # -1
        \/ a[2] # UTASSERT_STRINGBUF_NULL_TERM /\ a[2] <= Len(a[1].bytes)}
StringCompareInputs ==
    {ToUint32(k) : k \in UtAssert_Compare_NONE..UtAssert_Compare_BITMASK_SET}
        \cup {[hi |-> SignBit, lo |-> UtAssert_Compare_EQ]}

\* aggregates with every counter alike: of one digit, of four, of five, the largest
ReportCounterInputs ==
    LET UniformCounters(x) ==
            [TestSegmentCount |-> x, TotalTestCases |-> x,
             CaseCount |-> [c \in DOMAIN ZeroCounters.CaseCount |-> x]]
    IN {UniformCounters(One32), UniformCounters(ToUint32(9999)),
        UniformCounters(ToUint32(10000)), UniformCounters(Max32),
        [UniformCounters(Max32) EXCEPT !.TestSegmentCount = One32]}

\* UtAssert_DoTestSegmentReport
Apply_DoTestSegmentReport(SegmentName, TestCounters) ==
    /\ pure = NoApplication
    /\ pure' = [fn |-> "UtAssert_DoTestSegmentReport", SegmentName |-> SegmentName,
                TestCounters |-> TestCounters,
                out |-> SegmentReport(SegmentName, TestCounters)]
    /\ UNCHANGED <<Program, build>>

\* the helper has returned
Pure_Return ==
    /\ pure # NoApplication
    /\ pure' = NoApplication
    /\ UNCHANGED <<Program, build>>

\* the caller has taken the result of its call
Call_Return ==
    /\ returned # NoCall
    /\ returned' = NoCall
    /\ UNCHANGED <<build, pure, DefaultContext, UT_SegmentCounters, UT_TotalCounters,
                   CurrentSegment, lock, pc, frame, calls, Finalized, log, issued>>

InitPure ==
    /\ DefaultContext = UTASSERT_CASETYPE_FAILURE
    /\ UT_SegmentCounters = ZeroCounters
    /\ UT_TotalCounters = ZeroCounters
    /\ CurrentSegment = <<>>
    /\ lock = NoThread
    /\ pc = [t \in Threads |-> "idle"]
    /\ frame = [t \in Threads |-> IdleFrame]
    /\ calls = 0
    /\ Finalized = ZeroSums
    /\ log = EmptyLog(FALSE, ZeroCounters)
    /\ issued = <<>>
    /\ returned = NoCall
    /\ pure = NoApplication
    /\ build \in Builds

NextPure ==
    \/ /\ pure = NoApplication
       /\ \E a \in IntInputs, k \in CompareTypeInputs, r \in IntInputs, u \in BOOLEAN :
             Apply_DoCompare(ConvertTo(Type_intmax_t, a), k, ConvertTo(UT_IntCheck_t, r), u)
    \/ /\ pure = NoApplication
       /\ \E v \in ValueInputs, u \in BOOLEAN, x \in RadixInputs :
             Apply_GetValueText(ConvertTo(UT_IntCheck_t, v), u, x)
    \/ /\ pure = NoApplication
       /\ \E n \in {ShortName, [i \in 1..(CurrentSegmentSize - 1) |-> 78]},
             c \in ReportCounterInputs :
             Apply_DoTestSegmentReport(n, c)
    \/ Pure_Return

SpecPure == InitPure /\ [][NextPure]_vars

(* The integer comparisons called on their own, one call at a time, in     *)
(* every build.                                                            *)
NextGeneric ==
    \/ /\ returned = NoCall /\ calls < MaxApplications
       /\ \E a \in IntInputs, k \in CompareTypeInputs, r \in IntInputs :
             UtAssert_GenericUnsignedCompare(CHOOSE t \in Threads : TRUE, a, k, r)
    \/ /\ returned = NoCall /\ calls < MaxApplications
       /\ \E a \in IntInputs, k \in CompareTypeInputs, r \in IntInputs :
             UtAssert_GenericSignedCompare(CHOOSE t \in Threads : TRUE, a, k, r)
    \/ \E t \in Threads : UtAssertEx_Snapshot(t)
    \/ \E t \in Threads : UtAssertEx_Report(t)
    \/ Call_Return

SpecGeneric == InitPure /\ [][NextGeneric]_vars

(* UtAssert_StringBufCompare called on its own, one call at a time.        *)
NextString ==
    \/ /\ returned = NoCall /\ calls < MaxApplications
       /\ \E a1 \in StringArgs, a2 \in StringArgs, k \in StringCompareInputs :
             UtAssert_StringBufCompare(CHOOSE t \in Threads : TRUE,
                                       a1[1], a1[2], a2[1], a2[2], k)
    \/ \E t \in Threads : UtAssertEx_Snapshot(t)
    \/ \E t \in Threads : UtAssertEx_Report(t)
    \/ \E t \in Threads : UtAssert_StringBufCompare_NoReturn(t)
    \/ Call_Return

SpecString == Init /\ [][NextString]_vars

-----------------------------------------------------------------------------
(* Properties *)

AssertOps == {"UtAssertEx", "UtAssert"}

\* thread t makes the step that records its case (UT_BSP_Lock to line 224)
Records(t) == pc[t] # "ex_snap" /\ pc'[t] = "ex_snap"

\* a call returns in this step
Returns == returned' # returned /\ returned'.thread # NoThread

OutOfRangeArg(f) == ~f.Expression /\ f.CaseTypeArg \notin CaseTypes

\* C1, as claimed: the cumulative TotalTestCases equals the sum of the cumulative
\* per-classification counts, whatever classifications the callers passed.
C1_TotalIsSumOfCaseCounts ==
    UT_TotalCounters.TotalTestCases = Sum32(UT_TotalCounters.CaseCount, CaseTypes)

\* C1, amended: the cumulative TotalTestCases equals the sum of the cumulative
\* per-classification counts plus the number of folded-in cases that were recorded
\* with a false expression and an out-of-range classification (uint32 arithmetic);
\* the two are equal as long as no such case was folded in.
C1_TotalIsSumPlusOutOfRange ==
    /\ DOMAIN UT_TotalCounters.CaseCount = CaseTypes
    /\ UT_TotalCounters.TotalTestCases =
           Add32(Sum32(UT_TotalCounters.CaseCount, CaseTypes), Finalized.OutOfRange)
    /\ Finalized.OutOfRange = Zero32 => C1_TotalIsSumOfCaseCounts

C1_Witness ==
    /\ Finalized.OutOfRange # Zero32
    /\ UT_TotalCounters.CaseCount[UTASSERT_CASETYPE_FAILURE] # Zero32
    /\ UT_TotalCounters.CaseCount[UTASSERT_CASETYPE_PASS] # Zero32

\* C2: the cumulative aggregate equals the sum of the segment aggregates of the
\* EndTest calls that found at least one recorded case, and the cumulative
\* TestSegmentCount equals the number of those calls.
C2_TotalsAreSumOfFinalizedSegments ==
    /\ UT_TotalCounters.TestSegmentCount = Finalized.TestSegmentCount
    /\ UT_TotalCounters.TotalTestCases = Finalized.TotalTestCases
    /\ \A c \in CaseTypes : UT_TotalCounters.CaseCount[c] = Finalized.CaseCount[c]

C2_Witness ==
    /\ Finalized.TestSegmentCount = ToUint32(2)
    /\ Finalized.TotalTestCases = ToUint32(2)
    /\ UT_TotalCounters.TestSegmentCount = ToUint32(2)

\* C3: a UtAssertEx call whose Expression is true increments exactly the PASS count
\* of the segment aggregate by one, whatever classification was supplied, and its
\* report line is tagged PASS.
C3_PassingCountsAsPass ==
    [][/\ \A t \in Threads :
            Records(t) /\ frame'[t].Expression =>
                UT_SegmentCounters'.CaseCount =
                    [UT_SegmentCounters.CaseCount EXCEPT
                        ![UTASSERT_CASETYPE_PASS] = Add32(@, One32)]
       /\ Returns /\ returned'.frame.op \in AssertOps /\ returned'.frame.Expression =>
            /\ Len(returned'.frame.out) = 1
            /\ returned'.frame.out[1].kind = "case"
            /\ returned'.frame.out[1].MessageType = UTASSERT_CASETYPE_PASS
      ]_vars

C3_Witness ==
    /\ returned.frame.op = "UtAssertEx"
    /\ returned.frame.Expression
    /\ returned.frame.CaseTypeArg = UTASSERT_CASETYPE_MAX
    /\ returned.frame.out[1].MessageType = UTASSERT_CASETYPE_PASS
    /\ UT_SegmentCounters.CaseCount[UTASSERT_CASETYPE_PASS] = One32

\* C4: an EndTest that follows a BeginTest with no case recorded in between leaves
\* every cumulative counter as it was at the BeginTest, and emits the single
\* "No test cases" line, classification END, instead of the segment summary.
C4_EmptySegmentChangesNothing ==
    /\ \A t \in Threads :
          pc[t] = "end_clear" /\ log.begun /\ log.cases = 0 =>
              UT_TotalCounters = log.before
    /\ returned.frame.op = "UtAssert_EndTest" /\ returned.frame.found.begun
          /\ returned.frame.found.cases = 0 =>
              /\ returned.frame.out = <<NoTestCasesLine>>
              /\ returned.frame.out[1].MessageType = UTASSERT_CASETYPE_END

C4_Witness ==
    /\ returned.frame.op = "UtAssert_EndTest"
    /\ returned.frame.found.begun
    /\ returned.frame.found.cases = 0
    /\ Len(returned.frame.out) = 1

\* C5: BeginTest, one UtAssertEx with a false Expression and classification FAILURE,
\* EndTest: the cumulative TestSegmentCount, FAILURE count and TotalTestCases each
\* go up by exactly one from their values at the BeginTest; nothing else changes.
C5_OneFailingCaseSegment ==
    \A t \in Threads :
        pc[t] = "end_clear" /\ log.begun /\ log.cases = 1 /\ log.failures = 1 =>
            UT_TotalCounters =
                [log.before EXCEPT
                    !.TestSegmentCount = Add32(@, One32),
                    !.TotalTestCases = Add32(@, One32),
                    !.CaseCount[UTASSERT_CASETYPE_FAILURE] = Add32(@, One32)]

C5_Witness ==
    \E t \in Threads :
        /\ pc[t] = "end_clear" /\ log.begun /\ log.cases = 1 /\ log.failures = 1
        /\ UT_TotalCounters.CaseCount[UTASSERT_CASETYPE_FAILURE] = One32

\* C6: when several threads call UtAssertEx within one segment, the sequence numbers
\* are handed out 1, 2, 3, ... in the order the lock was taken, all with one segment
\* ordinal, so that no two calls get the same pair, and no increment of the segment
\* counter is lost.
C6_SequenceNumbersInLockOrder ==
    /\ \A i \in 1..Len(issued) :
          /\ issued[i].TestSeq = ToUint32(i)
          /\ issued[i].SegmentNum = issued[1].SegmentNum
    /\ UT_SegmentCounters.TotalTestCases = ToUint32(log.cases)
    /\ log.cases = Len(issued) + Cardinality({t \in Threads : pc[t] = "ex_snap"})

C6_Witness ==
    /\ \A t \in Threads : pc[t] = "ex_report"
    /\ Len(issued) = Cardinality(Threads)
    /\ \E t \in Threads : frame[t].TotalTestCases = ToUint32(Cardinality(Threads))

\* C7, as claimed: every UtAssertEx call emits exactly one report line before it
\* returns, tagged with the resolved classification (PASS for a true Expression,
\* otherwise the classification supplied) and carrying the ordinal pair it obtained
\* under the lock.
C7_OneLineTaggedWithResolvedClassification ==
    returned.frame.op \in AssertOps =>
        /\ Len(returned.frame.out) = 1
        /\ returned.frame.out[1].kind = "case"
        /\ returned.frame.out[1].MessageType =
               (IF returned.frame.Expression THEN UTASSERT_CASETYPE_PASS
                ELSE returned.frame.CaseTypeArg)
        /\ returned.frame.out[1].SegmentNum = returned.frame.TestSegmentCount
        /\ returned.frame.out[1].TestSeq = returned.frame.TotalTestCases

\* C8: UtAssertEx and UtAssert return exactly the Expression they were given, for
\* every classification; a failing assertion shows as the false result, one counted
\* case and one report line.
C8_ReturnsExpression ==
    returned.frame.op \in AssertOps =>
        /\ returned.frame.ret = returned.frame.Expression
        /\ Len(returned.frame.out) = 1
        /\ returned.frame.TotalTestCases # Zero32

C8_Witness ==
    /\ returned.frame.op = "UtAssertEx"
    /\ ~returned.frame.Expression
    /\ returned.frame.CaseTypeArg = UTASSERT_CASETYPE_PASS
    /\ ~returned.frame.ret

\* C9: a UtAssertEx call with a false Expression and a classification outside
\* 0..UTASSERT_CASETYPE_MAX-1 changes no per-classification count of either
\* aggregate and writes no cell outside CaseCount; it adds one to the segment
\* TotalTestCases, emits its report line and returns false.
C9_OutOfRangeClassificationIsNotCounted ==
    [][/\ \A t \in Threads :
            Records(t) /\ OutOfRangeArg(frame'[t]) =>
                /\ UT_SegmentCounters'.CaseCount = UT_SegmentCounters.CaseCount
                /\ DOMAIN UT_SegmentCounters'.CaseCount = CaseTypes
                /\ UT_TotalCounters' = UT_TotalCounters
                /\ UT_SegmentCounters'.TotalTestCases =
                       Add32(UT_SegmentCounters.TotalTestCases, One32)
       /\ Returns /\ returned'.frame.op \in AssertOps /\ OutOfRangeArg(returned'.frame) =>
            /\ Len(returned'.frame.out) = 1
            /\ returned'.frame.out[1].kind = "case"
            /\ ~returned'.frame.ret
      ]_vars

C9_Witness ==
    /\ returned.frame.op = "UtAssertEx"
    /\ OutOfRangeArg(returned.frame)
    /\ returned.frame.CaseTypeArg < 0
    /\ UT_SegmentCounters.TotalTestCases = ToUint32(2)
    /\ Sum32(UT_SegmentCounters.CaseCount, CaseTypes) = Zero32

\* C10, as claimed: in no step does a cumulative counter (TestSegmentCount,
\* TotalTestCases, any CaseCount[c]) take a value smaller than the one it had, also
\* when it holds the uint32 maximum before UtAssert_EndTest folds a segment in.
C10_CumulativeCountersNeverDecrease ==
    [][/\ Le32(UT_TotalCounters.TestSegmentCount, UT_TotalCounters'.TestSegmentCount)
       /\ Le32(UT_TotalCounters.TotalTestCases, UT_TotalCounters'.TotalTestCases)
       /\ \A c \in CaseTypes :
            Le32(UT_TotalCounters.CaseCount[c], UT_TotalCounters'.CaseCount[c])
      ]_vars

\* C11: UtAssert_Message and UtAssert_Abort change neither aggregate, nor the current
\* segment name, nor the default context; each hands exactly one text to
\* UT_BSP_DoText (Abort with classification ABORT, Message with the message type it
\* was given) and is then back in its caller.
C11_MessageAndAbortOnlyEmitText ==
    [][Returns /\ returned'.frame.op \in {"UtAssert_Message", "UtAssert_Abort"} =>
            /\ UNCHANGED <<UT_SegmentCounters, UT_TotalCounters, CurrentSegment,
                           DefaultContext>>
            /\ Len(returned'.frame.out) = 1
            /\ returned'.frame.out[1].kind = "text"
            /\ returned'.frame.out[1].MessageType =
                   (IF returned'.frame.op = "UtAssert_Abort" THEN UTASSERT_CASETYPE_ABORT
                    ELSE returned'.frame.CaseTypeArg)
            /\ pc'[returned'.thread] = "idle"
      ]_vars

C11_Witness ==
    /\ returned.frame.op = "UtAssert_Abort"
    /\ returned.frame.out[1].MessageType = UTASSERT_CASETYPE_ABORT
    /\ UT_SegmentCounters.TotalTestCases # Zero32
    /\ CurrentSegment # <<>>
    /\ DefaultContext = UTASSERT_CASETYPE_TSF

CompareOps ==
    {"UtAssert_GenericUnsignedCompare", "UtAssert_GenericSignedCompare",
     "UtAssert_StringBufCompare"}

\* the comparison of the call thread t has made was computed: always for the integers,
\* for the strings unless a NULL pointer was handed to memcmp
Compared(f) ==
    f.op = "UtAssert_StringBufCompare" => ~(f.cmp.ReadsNull1 \/ f.cmp.ReadsNull2)

\* C12, as claimed: a failing UtAssert_GenericUnsignedCompare,
\* UtAssert_GenericSignedCompare or UtAssert_StringBufCompare call adds one to the
\* FAILURE count and to no other, whatever the default context is (FAILURE or TSF),
\* its line is tagged FAILURE, and no step of the call changes the default context.
C12_FailedComparisonCountsAsFailure ==
    [][/\ \A t \in Threads :
            (/\ AtRest(t) /\ frame'[t].op \in CompareOps
             /\ Compared(frame'[t]) /\ ~frame'[t].Expression) =>
                /\ UT_SegmentCounters'.CaseCount =
                       [UT_SegmentCounters.CaseCount EXCEPT
                           ![UTASSERT_CASETYPE_FAILURE] = Add32(@, One32)]
                /\ DefaultContext' = DefaultContext
       /\ \A t \in Threads :
            frame[t].op \in CompareOps => DefaultContext' = DefaultContext
                                          \/ (\E u \in Threads \ {t} : returned'.thread = u
                                                /\ returned'.frame.op = "UtAssert_SetContext")
       /\ Returns /\ returned'.frame.op \in CompareOps /\ ~returned'.frame.Expression =>
            returned'.frame.out[1].MessageType = UTASSERT_CASETYPE_FAILURE
      ]_vars

\* the classification each pseudo-assertion macro is to record under
PseudoCaseType(op) ==
    CASE op = "UtAssert_NA" -> UTASSERT_CASETYPE_NA
      [] op = "UtAssert_MIR" -> UTASSERT_CASETYPE_MIR
      [] op = "UtAssert_WARN" -> UTASSERT_CASETYPE_WARN
      [] op = "UtAssert_VOIDCALL" -> UTASSERT_CASETYPE_PASS

PseudoOps == {"UtAssert_NA", "UtAssert_MIR", "UtAssert_WARN", "UtAssert_VOIDCALL"}

\* C13: UtAssert_NA, UtAssert_MIR and UtAssert_WARN add one to the NA, MIR and WARN
\* count respectively and to no other count and return false; UtAssert_VOIDCALL adds
\* one to the PASS count only and returns true; all of this whatever the default
\* context is.
C13_PseudoAssertions ==
    [][/\ \A t \in Threads :
            Records(t) /\ frame'[t].op \in PseudoOps =>
                UT_SegmentCounters'.CaseCount =
                    [UT_SegmentCounters.CaseCount EXCEPT
                        ![PseudoCaseType(frame'[t].op)] = Add32(@, One32)]
       /\ Returns /\ returned'.frame.op \in PseudoOps =>
            returned'.frame.ret = (returned'.frame.op = "UtAssert_VOIDCALL")
      ]_vars

C13_Witness ==
    /\ returned.frame.op = "UtAssert_VOIDCALL"
    /\ returned.frame.ret
    /\ returned.frame.CaseTypeArg = UTASSERT_CASETYPE_TSF
    /\ UT_SegmentCounters.CaseCount[UTASSERT_CASETYPE_PASS] = One32
    /\ UT_SegmentCounters.CaseCount[UTASSERT_CASETYPE_WARN] = One32
    /\ UT_SegmentCounters.CaseCount[UTASSERT_CASETYPE_TSF] = Zero32

ContextOps == {"UtAssert", "UtAssert_True", "UtAssert_Failed"}

\* C14: the default context is FAILURE at the start and is changed by
\* UtAssert_SetContext only, to the value passed; UtAssert_GetContext returns the
\* default context as it is when called; a failing UtAssert, UtAssert_True or
\* UtAssert_Failed adds one to the count of the classification so obtained, and to
\* no other.
C14_FailuresCountUnderDefaultContext ==
    /\ DefaultContext = UTASSERT_CASETYPE_FAILURE
    /\ [][/\ DefaultContext' # DefaultContext =>
                Returns /\ returned'.frame.op = "UtAssert_SetContext"
          /\ Returns /\ returned'.frame.op = "UtAssert_SetContext" =>
                DefaultContext' = returned'.frame.CaseTypeArg
          /\ \A t \in Threads :
                pc[t] = "idle" /\ pc'[t] = "ua_call" =>
                    /\ frame'[t].CaseTypeArg = DefaultContext
                    /\ DefaultContext' = DefaultContext
          /\ \A t \in Threads :
                Records(t) /\ frame'[t].op \in ContextOps /\ ~frame'[t].Expression =>
                    UT_SegmentCounters'.CaseCount =
                        [UT_SegmentCounters.CaseCount EXCEPT
                            ![frame[t].CaseTypeArg] = Add32(@, One32)]
         ]_vars

C14_Witness ==
    /\ returned.frame.op = "UtAssert_Failed"
    /\ returned.frame.CaseTypeArg = UTASSERT_CASETYPE_TSF
    /\ DefaultContext = UTASSERT_CASETYPE_TSF
    /\ UT_SegmentCounters.CaseCount[UTASSERT_CASETYPE_TSF] = One32
    /\ UT_SegmentCounters.CaseCount[UTASSERT_CASETYPE_FAILURE] = One32

\* the mathematical reading of two patterns, from the sign and the magnitude
Negative(w) == w[1] >= SignBit
MagnitudeLess(a, r) == \E i \in 1..4 : a[i] < r[i] /\ \A j \in 1..(i - 1) : a[j] = r[j]
MathLess(a, r, IsUnsigned) ==
    IF IsUnsigned \/ Negative(a) = Negative(r) THEN MagnitudeLess(a, r) ELSE Negative(a)
BitOf(w, i) == (w[4 - (i \div 16)] \div (2 ^ (i % 16))) % 2
MathRelation(CompareType, a, r, IsUnsigned) ==
    CASE CompareType = ToUint32(UtAssert_Compare_EQ) -> a = r
      [] CompareType = ToUint32(UtAssert_Compare_NEQ) -> a # r
      [] CompareType = ToUint32(UtAssert_Compare_LT) -> MathLess(a, r, IsUnsigned)
      [] CompareType = ToUint32(UtAssert_Compare_GT) -> MathLess(r, a, IsUnsigned)
      [] CompareType = ToUint32(UtAssert_Compare_LTEQ) -> a = r \/ MathLess(a, r, IsUnsigned)
      [] CompareType = ToUint32(UtAssert_Compare_GTEQ) -> a = r \/ MathLess(r, a, IsUnsigned)
      [] CompareType = ToUint32(UtAssert_Compare_BITMASK_SET) ->
             \A i \in 0..(IntMaxBits - 1) : BitOf(r, i) = 1 => BitOf(a, i) = 1
      [] CompareType = ToUint32(UtAssert_Compare_BITMASK_UNSET) ->
             \A i \in 0..(IntMaxBits - 1) : ~(BitOf(r, i) = 1 /\ BitOf(a, i) = 1)
      [] OTHER -> FALSE

\* C15: for every actual and reference value and both signedness flags,
\* UtAssert_DoCompare returns the relation its kind names (EQ a = r, NEQ a # r,
\* LT a < r, GT a > r, LTEQ a <= r, GTEQ a >= r, BITMASK_SET every bit of r set in
\* a, BITMASK_UNSET no bit of r set in a), the order being that of the values as
\* signed or as unsigned numbers; for NONE and every other kind it returns false.
C15_DoCompareIsTheRelation ==
    pure.fn = "UtAssert_DoCompare" =>
        pure.Result = MathRelation(pure.CompareType, pure.ActualValueIn,
                                   pure.ReferenceValueIn, pure.IsUnsigned)

NamedKinds ==
    {ToUint32(k) : k \in UtAssert_Compare_EQ..UtAssert_Compare_BITMASK_UNSET}

StringCalls ==
    {[cmp |-> frame[t].cmp, Returns |-> pc[t] # "stopped", Result |-> frame[t].Expression] :
        t \in {u \in Threads : frame[u].op = "UtAssert_StringBufCompare"}}
    \cup {[cmp |-> returned.frame.cmp, Returns |-> TRUE, Result |-> returned.frame.ret] :
             x \in {y \in {returned.frame.op} : y = "UtAssert_StringBufCompare"}}

\* C17, as claimed: a NULL string has comparison length zero whatever its max-length
\* argument is, it compares EQ to a NULL or empty string, and nothing is read or
\* copied through the NULL pointer.
C17_NullStringIsAbsent ==
    \A c \in StringCalls :
        /\ c.cmp.String1.null =>
              /\ c.cmp.FormatLen1 = 0
              /\ ~c.cmp.ReadsNull1
              /\ c.cmp.CompareType = ToUint32(UtAssert_Compare_EQ)
                    /\ (c.cmp.String2.null \/ c.cmp.FormatLen2 = 0) =>
                    c.Returns /\ c.Result
        /\ c.cmp.String2.null =>
              /\ c.cmp.FormatLen2 = 0
              /\ ~c.cmp.ReadsNull2
              /\ c.cmp.CompareType = ToUint32(UtAssert_Compare_EQ)
                    /\ (c.cmp.String1.null \/ c.cmp.FormatLen1 = 0) =>
                    c.Returns /\ c.Result

\* the effective length of a string: its natural length with the null-terminated
\* marker, else the position of the first NUL within the bound, else the bound
EffectiveLength(String, StringMax) ==
    LET Bound == IF StringMax = UTASSERT_STRINGBUF_NULL_TERM THEN Len(String.bytes)
                 ELSE StringMax
        Nuls == {i \in 1..Bound : String.bytes[i] = Char_NUL}
    IN IF Nuls = {} THEN Bound
       ELSE (CHOOSE i \in Nuls : \A j \in Nuls : i <= j) - 1

\* -1, 0 or 1: the order of two strings of the given lengths, by their common
\* prefix first and by length second
StringOrder(String1, Len1, String2, Len2) ==
    LET Shorter == IF Len1 < Len2 THEN Len1 ELSE Len2
        Differ == {i \in 1..Shorter : String1.bytes[i] # String2.bytes[i]}
        First == CHOOSE i \in Differ : \A j \in Differ : i <= j
    IN IF Differ # {}
       THEN (IF String1.bytes[First] < String2.bytes[First] THEN -1 ELSE 1)
       ELSE IF Len1 < Len2 THEN -1 ELSE IF Len1 > Len2 THEN 1 ELSE 0

OrderRelation(Order, CompareType) ==
    CASE CompareType = ToUint32(UtAssert_Compare_EQ) -> Order = 0
      [] CompareType = ToUint32(UtAssert_Compare_NEQ) -> Order # 0
      [] CompareType = ToUint32(UtAssert_Compare_LT) -> Order = -1
      [] CompareType = ToUint32(UtAssert_Compare_GT) -> Order = 1
      [] CompareType = ToUint32(UtAssert_Compare_LTEQ) -> Order # 1
      [] CompareType = ToUint32(UtAssert_Compare_GTEQ) -> Order # -1

OrderKinds == {ToUint32(k) : k \in UtAssert_Compare_EQ..UtAssert_Compare_GTEQ}

\* C18, as claimed: for every pair of non-null strings and bounds the call returns,
\* and its result is the requested relation on the order of the two strings taken at
\* their effective lengths (common prefix first, then the longer one is greater); a
\* newline is a byte like any other.
C18_StringBufCompareIsTheOrder ==
    \A c \in StringCalls :
        (/\ ~c.cmp.String1.null /\ ~c.cmp.String2.null
         /\ c.cmp.CompareType \in OrderKinds) =>
            /\ c.cmp.FormatLen1 = EffectiveLength(c.cmp.String1, c.cmp.String1Max)
            /\ c.cmp.FormatLen2 = EffectiveLength(c.cmp.String2, c.cmp.String2Max)
            /\ c.Returns
            /\ c.Result =
                  OrderRelation(StringOrder(c.cmp.String1, c.cmp.FormatLen1,
                                            c.cmp.String2, c.cmp.FormatLen2),
                                c.cmp.CompareType)

\* C19, as claimed: with an explicit maximum size, UtAssert_StringBufCompare reads no
\* byte of String1 past String1Max and no byte of String2 past String2Max, in the
\* search for the end, in the comparison and in the copy for the log, with or without
\* a NUL in the buffer.
C19_ReadsStayWithinExplicitMax ==
    \A c \in StringCalls :
        /\ (~c.cmp.String1.null /\ c.cmp.String1Max # UTASSERT_STRINGBUF_NULL_TERM) =>
              /\ c.cmp.Extent1 \in 0..c.cmp.String1Max
              /\ c.cmp.CopyLen1 \in 0..c.cmp.String1Max
        /\ (~c.cmp.String2.null /\ c.cmp.String2Max # UTASSERT_STRINGBUF_NULL_TERM) =>
              /\ c.cmp.Extent2 \in 0..c.cmp.String2Max
              /\ c.cmp.CopyLen2 \in 0..c.cmp.String2Max

\* the value of a digit character, -1 for any other character
DigitValue(c) ==
    IF c \in Char_Zero..(Char_Zero + 9) THEN c - Char_Zero
    ELSE IF c \in Char_LowerA..(Char_LowerA + 5) THEN c - Char_LowerA + 10
    ELSE -1

\* the number a numeral denotes, on five limbs so that a numeral too large for 64
\* bits is told apart
RECURSIVE NumeralValue(_, _)
NumeralValue(digits, base) ==
    IF digits = <<>> THEN <<0, 0, 0, 0, 0>>
    ELSE LET w == NumeralValue(SubSeq(digits, 1, Len(digits) - 1), base)
             t5 == w[5] * base + DigitValue(digits[Len(digits)])
             t4 == w[4] * base + (t5 \div LimbBase)
             t3 == w[3] * base + (t4 \div LimbBase)
             t2 == w[2] * base + (t3 \div LimbBase)
             t1 == w[1] * base + (t2 \div LimbBase)
         IN <<t1 % LimbBase, t2 % LimbBase, t3 % LimbBase, t4 % LimbBase, t5 % LimbBase>>

\* digits is the numeral of the unsigned value with pattern w in the base, as printf
\* writes it: digits of the base only, no leading zero
IsNumeral(digits, base, w) ==
    /\ Len(digits) >= 1
    /\ \A i \in 1..Len(digits) : DigitValue(digits[i]) \in 0..(base - 1)
    /\ Len(digits) > 1 => digits[1] # Char_Zero
    /\ NumeralValue(digits, base) = <<0>> \o w

\* a + b on 64 bits
Sum64(a, b) ==
    LET t4 == a[4] + b[4]
        t3 == a[3] + b[3] + (t4 \div LimbBase)
        t2 == a[2] + b[2] + (t3 \div LimbBase)
        t1 == a[1] + b[1] + (t2 \div LimbBase)
    IN <<t1 % LimbBase, t2 % LimbBase, t3 % LimbBase, t4 % LimbBase>>

\* the value as the printf argument: the low bits that an unsigned long / a long of
\* the build holds, zero- or sign-extended
AsUnsignedLong(w) == IF build.LongBits = IntMaxBits THEN w ELSE <<0, 0, w[3], w[4]>>
AsLong(w) ==
    IF build.LongBits = IntMaxBits THEN w
    ELSE IF w[3] >= SignBit THEN <<LimbTop, LimbTop, w[3], w[4]>>
    ELSE <<0, 0, w[3], w[4]>>

\* digits is the decimal numeral of the magnitude of the negative value v
IsMagnitudeOf(digits, v) ==
    /\ IsNumeral(digits, 10, SubSeq(NumeralValue(digits, 10), 2, 5))
    /\ Sum64(SubSeq(NumeralValue(digits, 10), 2, 5), v) = Zero64

\* C20: UtAssert_GetValueText looks at the radix first and at the signed flag second:
\* BOOLEAN gives "true" for a non-zero value and "false" for zero; OCTAL and HEX give
\* the unsigned numeral after "0" / "0x" whatever the flag and the sign; any other
\* radix gives the unsigned decimal numeral with the unsigned flag and the signed one
\* without it.  255 in HEX is "0xff" and 8 in OCTAL is "010".
C20_RadixFirstSignednessSecond ==
    pure.fn = "UtAssert_GetValueText" =>
        LET v == pure.InValue
            t == pure.Text
        IN /\ CASE pure.RadixType = UtAssert_Radix_BOOLEAN ->
                       t = IF v # Zero64 THEN Text_true ELSE Text_false
                [] pure.RadixType = UtAssert_Radix_OCTAL ->
                       /\ Len(t) >= 2 /\ t[1] = Char_Zero
                       /\ IsNumeral(Tail(t), 8, AsUnsignedLong(v))
                [] pure.RadixType = UtAssert_Radix_HEX ->
                       /\ Len(t) >= 3 /\ SubSeq(t, 1, 2) = <<Char_Zero, Char_LowerX>>
                       /\ IsNumeral(SubSeq(t, 3, Len(t)), 16, AsUnsignedLong(v))
                [] OTHER ->
                       IF pure.IsUnsigned THEN IsNumeral(t, 10, AsUnsignedLong(v))
                       ELSE IF AsLong(v)[1] >= SignBit
                            THEN /\ Len(t) >= 2 /\ t[1] = Char_Minus
                                 /\ IsMagnitudeOf(Tail(t), AsLong(v))
                            ELSE IsNumeral(t, 10, AsLong(v))
           /\ (v = FromInt(255) /\ pure.RadixType = UtAssert_Radix_HEX) =>
                  t = <<Char_Zero, Char_LowerX, 102, 102>>
           /\ (v = FromInt(8) /\ pure.RadixType = UtAssert_Radix_OCTAL) =>
                  t = <<Char_Zero, Char_Zero + 1, Char_Zero>>

\* -1 with the signed flag in HEX, where long has 64 bits: "0xffffffffffffffff"
C20_Witness ==
    /\ pure.fn = "UtAssert_GetValueText"
    /\ build.LongBits = IntMaxBits
    /\ pure.InValue = FromInt(-1) /\ ~pure.IsUnsigned
    /\ pure.RadixType = UtAssert_Radix_HEX
    /\ pure.Text = <<Char_Zero, Char_LowerX>> \o [i \in 1..16 |-> 102]

\* thread t hands something to the board support package in this step
Reporting(t) ==
    /\ Returns /\ returned'.thread = t
    /\ returned'.frame.out # <<>>

ReportingOps == {"UtAssertEx", "UtAssert", "UtAssert_BeginTest", "UtAssert_EndTest"}

\* C21: no thread calls UT_BSP_DoText or UT_BSP_StartTestSegment while it holds the
\* counter lock: UtAssert_BeginTest, UtAssertEx and UtAssert_EndTest have released the
\* lock before they report, and do not take it again before they return.
C21_NoReportUnderLock ==
    [][\A t \in Threads :
          /\ Reporting(t) => lock # t /\ lock' # t
          /\ (pc[t] \in {"ex_report", "begin_notify", "end_report"} /\ pc'[t] # pc[t]) =>
                /\ Reporting(t)
                /\ returned'.frame.op \in ReportingOps
                /\ pc'[t] = "idle"
      ]_vars

\* a summary was reported while the other thread was inside its critical section
C21_Witness ==
    /\ returned.frame.op = "UtAssert_EndTest"
    /\ Len(returned.frame.out) = 2
    /\ lock \in Threads \ {returned.thread}
    /\ pc[lock] = "ex_snap"

\* the statements between UT_BSP_Lock and UT_BSP_Unlock
CriticalSections == {"ex_snap", "begin_name", "end_clear"}
InCritical(t) == pc[t] \in CriticalSections

\* the shared state the lock guards
CounterStore == <<UT_SegmentCounters, UT_TotalCounters, CurrentSegment>>

\* the lock is owned by the one thread that is inside a critical section, if any
LockGuardsCounterStore ==
    /\ \A t \in Threads : InCritical(t) <=> lock = t
    /\ Cardinality({t \in Threads : InCritical(t)}) <= 1

\* C22: every write to the segment aggregate, the cumulative aggregate and the current
\* segment name is made by a thread that holds the lock, so no two threads are ever
\* inside a writing section together; every operation takes the lock when it is free,
\* releases it exactly once, and does not return holding it.
C22_WritesOnlyUnderLock ==
    /\ LockGuardsCounterStore
    /\ [][/\ LockGuardsCounterStore'
          /\ CounterStore' # CounterStore =>
                \E t \in Threads :
                    /\ pc'[t] # pc[t]
                    /\ lock = t \/ (lock = NoThread /\ lock' = t)
                    /\ \A u \in Threads \ {t} : ~InCritical(u) /\ pc'[u] = pc[u]
          /\ lock' # lock => lock = NoThread \/ lock' = NoThread
          /\ \A t \in Threads :
                /\ (lock = t /\ lock' # t) =>
                      pc'[t] \in {"ex_report", "begin_notify", "end_report"}
                /\ (pc[t] \in {"ex_report", "begin_notify", "end_report"}) => lock' # t
                /\ pc'[t] = "idle" => lock' # t
         ]_vars

\* one thread writes the cleared aggregate under the lock while the other, which has
\* released the lock, is about to report
C22_Witness ==
    \E t \in Threads, u \in Threads :
        /\ t # u
        /\ pc[t] = "end_clear" /\ lock = t /\ frame[t].SegmentValid
        /\ pc[u] = "ex_report"

\* the first 63 characters of a name
First63(name) ==
    [i \in 1..(IF Len(name) < CurrentSegmentSize - 1 THEN Len(name)
               ELSE CurrentSegmentSize - 1) |-> name[i]]

\* C23: each UtAssert_BeginTest call zeroes the whole segment aggregate, stores the
\* first 63 characters of the given name, which always leaves room for the NUL, and
\* calls UT_BSP_StartTestSegment exactly once, with 1 + the cumulative
\* TestSegmentCount it read under the lock; nothing else writes the stored name, and
\* UtAssert_GetSegmentName returns it.
C23_BeginTestStartsSegment ==
    [][/\ \A t \in Threads :
            /\ (pc[t] = "idle" /\ pc'[t] = "begin_name") =>
                  UT_SegmentCounters' = ZeroCounters /\ lock' = t
            /\ (pc[t] = "begin_name" /\ pc'[t] # pc[t]) =>
                  /\ lock = t
                  /\ UT_SegmentCounters' = ZeroCounters
                  /\ CurrentSegment' = First63(frame[t].SegmentName)
                  /\ Len(CurrentSegment') < CurrentSegmentSize
                  /\ frame'[t].TestSegmentCount =
                         Add32(One32, UT_TotalCounters.TestSegmentCount)
                  /\ frame'[t].out = <<>>
       /\ (Returns /\ returned'.frame.op = "UtAssert_BeginTest") =>
            /\ Len(returned'.frame.out) = 1
            /\ returned'.frame.out[1].kind = "start"
            /\ returned'.frame.out[1].SegmentNum = returned'.frame.TestSegmentCount
            /\ returned'.frame.out[1].Name = returned'.frame.SegmentName
       /\ CurrentSegment' # CurrentSegment => \E t \in Threads : pc[t] = "begin_name"
       /\ (Returns /\ returned'.frame.op = "UtAssert_GetSegmentName") =>
            /\ returned'.frame.got.ref = "CurrentSegment"
            /\ UNCHANGED CurrentSegment
            /\ Len(returned'.frame.got.name) < CurrentSegmentSize
            /\ (\A u \in Threads : pc[u] # "begin_name") =>
                  returned'.frame.got.name = CurrentSegment
            /\ \A i \in 1..Len(returned'.frame.got.name) :
                  \/ /\ i <= Len(CurrentSegment)
                     /\ returned'.frame.got.name[i] = CurrentSegment[i]
                  \/ \E u \in Threads :
                        /\ pc[u] = "begin_name"
                        /\ i <= Len(frame[u].SegmentName)
                        /\ returned'.frame.got.name[i] = frame[u].SegmentName[i]
      ]_vars

\* a segment begun under a name of 66 characters has been finalized; the name asked
\* for afterwards is still its first 63 characters
C23_Witness ==
    /\ returned.frame.op = "UtAssert_GetSegmentName"
    /\ returned.frame.got.name = SubSeq(LongName, 1, 63)
    /\ UT_TotalCounters.TestSegmentCount = One32
    /\ UT_SegmentCounters = ZeroCounters

\* the run of decimal digits of a text that starts at position i
RECURSIVE DigitsAt(_, _)
DigitsAt(text, i) ==
    IF i <= Len(text) /\ text[i] \in Char_Zero..(Char_Zero + 9)
    THEN <<text[i]>> \o DigitsAt(text, i + 1)
    ELSE <<>>

\* the number a printed line shows after the first occurrence of a label, as digits
ShownAfter(text, label) ==
    LET At == {i \in 1..Len(text) :
                  /\ i + Len(label) - 1 <= Len(text)
                  /\ SubSeq(text, i, i + Len(label) - 1) = label}
    IN IF At = {} THEN <<>>
       ELSE DigitsAt(text, Len(label) + CHOOSE i \in At : \A j \in At : i <= j)

\* the labels of the two summary lines and the classification each one counts
InfoLabels ==
    {<<SummaryLabel.ABORT, UTASSERT_CASETYPE_ABORT>>, <<SummaryLabel.WARN, UTASSERT_CASETYPE_WARN>>,
     <<SummaryLabel.FLOW, UTASSERT_CASETYPE_FLOW>>, <<SummaryLabel.DEBUG, UTASSERT_CASETYPE_DEBUG>>,
     <<SummaryLabel.NA, UTASSERT_CASETYPE_NA>>}
EndLabels ==
    {<<SummaryLabel.PASS, UTASSERT_CASETYPE_PASS>>, <<SummaryLabel.FAIL, UTASSERT_CASETYPE_FAILURE>>,
     <<SummaryLabel.MIR, UTASSERT_CASETYPE_MIR>>, <<SummaryLabel.TSF, UTASSERT_CASETYPE_TSF>>,
     <<SummaryLabel.TTF, UTASSERT_CASETYPE_TTF>>}

\* the two printed lines show the counters, the ordinal and the name given, in full
SummaryShows(out, Name, Counters) ==
    /\ Len(out) = 2
    /\ out[1].kind = "summary_info" /\ out[1].MessageType = UTASSERT_CASETYPE_INFO
    /\ out[2].kind = "summary_end" /\ out[2].MessageType = UTASSERT_CASETYPE_END
    /\ \A f \in InfoLabels :
          ShownAfter(out[1].Name, f[1]) = DecimalText(Val(Counters.CaseCount[f[2]]))
    /\ \A f \in EndLabels :
          ShownAfter(out[2].Name, f[1]) = DecimalText(Val(Counters.CaseCount[f[2]]))
    /\ ShownAfter(out[2].Name, SummaryLabel.TOTAL) = DecimalText(Val(Counters.TotalTestCases))
    /\ SubSeq(out[2].Name, 4, 3 + Len(Name)) = Name
    /\ out[2].Name[4 + Len(Name)] = Char_Space

\* C24: UtAssert_EndTest leaves the segment aggregate all zero when it releases the
\* lock, for an empty segment as for any other; the summary it prints afterwards is
\* the copy of counters and name it took under the lock, with TestSegmentCount equal
\* to the new cumulative count, so a case recorded after the unlock is neither in
\* the summary nor in what this call added to the totals; with no case recorded since
\* the last BeginTest or EndTest it prints "No test cases" and changes nothing.
C24_EndTestSnapshot ==
    [][/\ \A t \in Threads :
            /\ (pc[t] = "idle" /\ pc'[t] = "end_clear") =>
                  /\ frame'[t].SegmentValid = (log.cases > 0)
                  /\ log.cases > 0 =>
                        /\ frame'[t].Local_SegmentCounters.TotalTestCases =
                               ToUint32(log.cases)
                        /\ frame'[t].Local_SegmentCounters.CaseCount =
                               UT_SegmentCounters.CaseCount
                        /\ frame'[t].Local_SegmentCounters.TestSegmentCount =
                               UT_TotalCounters'.TestSegmentCount
                        /\ frame'[t].Local_SegmentName = CurrentSegment
                        /\ UT_TotalCounters'.TotalTestCases =
                               Add32(UT_TotalCounters.TotalTestCases, ToUint32(log.cases))
                  /\ log.cases = 0 =>
                        UNCHANGED <<UT_TotalCounters, UT_SegmentCounters, CurrentSegment>>
            /\ (lock = t /\ lock' # t /\ pc[t] = "end_clear") =>
                  UT_SegmentCounters' = ZeroCounters /\ UNCHANGED UT_TotalCounters
       /\ (Returns /\ returned'.frame.op = "UtAssert_EndTest") =>
            /\ UNCHANGED <<UT_TotalCounters, UT_SegmentCounters, CurrentSegment>>
            /\ returned'.frame.found.cases > 0 =>
                  /\ SummaryShows(returned'.frame.out, returned'.frame.Local_SegmentName,
                                  returned'.frame.Local_SegmentCounters)
                  /\ ShownAfter(returned'.frame.out[2].Name, SummaryLabel.TOTAL) =
                         DecimalText(returned'.frame.found.cases)
            /\ returned'.frame.found.cases = 0 =>
                  returned'.frame.out = <<NoTestCasesLine>>
      ]_vars

\* the summary of a one-case segment is printed after another case has been recorded:
\* the summary and the totals hold one case, the new segment aggregate the other
C24_Witness ==
    /\ returned.frame.op = "UtAssert_EndTest"
    /\ returned.frame.found.cases = 1
    /\ ShownAfter(returned.frame.out[2].Name, SummaryLabel.TOTAL) = DecimalText(1)
    /\ DigitsAt(returned.frame.out[2].Name, 1) = <<Char_Zero, Char_Zero + 1>>
    /\ UT_TotalCounters.TotalTestCases = One32
    /\ UT_SegmentCounters.TotalTestCases = One32

\* C25, as claimed: for every pair of non-null strings and bounds, the bytes copied
\* into each 256-byte scratch buffer and the NUL written after them stay within the
\* buffer: the copy length after the cut at a newline is at most 255.
C25_ScratchCopyFits ==
    \A c \in StringCalls :
        (~c.cmp.String1.null /\ ~c.cmp.String2.null) =>
            /\ c.cmp.CopyLen1 \in 0..(ScrubbedStringSize - 1)
            /\ c.cmp.CopyLen2 \in 0..(ScrubbedStringSize - 1)
            /\ ~c.cmp.WritesPast1 /\ ~c.cmp.WritesPast2

\* the ordinal of the segment in progress, from the cumulative aggregate as it was at
\* the last BeginTest or EndTest
OrdinalInProgress == Add32(One32, log.before.TestSegmentCount)

\* C26: the pair on an assertion's report line is 1 + the cumulative TestSegmentCount
\* at the time the case was recorded and the number of cases recorded since the last
\* BeginTest or EndTest, this one included, so the sequence restarts at 1 after each
\* of them; when a BeginTest is followed by at least one assertion and then EndTest,
\* the ordinal announced by BeginTest, the ordinal of every assertion of the segment
\* and the TestSegmentCount of the summary are equal.
C26_OrdinalPairs ==
    [][/\ \A t \in Threads :
            /\ (pc[t] = "ex_snap" /\ pc'[t] # pc[t]) =>
                  /\ frame'[t].TestSegmentCount =
                         Add32(One32, UT_TotalCounters.TestSegmentCount)
                  /\ frame'[t].TestSegmentCount = OrdinalInProgress
                  /\ frame'[t].TotalTestCases = ToUint32(log.cases)
                  /\ issued = <<>> => frame'[t].TotalTestCases = One32
            /\ (pc[t] = "begin_name" /\ pc'[t] # pc[t]) =>
                  frame'[t].TestSegmentCount = OrdinalInProgress
            /\ (pc[t] = "idle" /\ pc'[t] = "end_clear" /\ log.begun /\ log.cases > 0) =>
                  /\ frame'[t].Local_SegmentCounters.TestSegmentCount = OrdinalInProgress
                  /\ Len(issued) = log.cases
                  /\ \A i \in 1..Len(issued) :
                        issued[i] = [SegmentNum |-> OrdinalInProgress,
                                     TestSeq |-> ToUint32(i)]
       /\ (Returns /\ returned'.frame.op \in AssertOps) =>
            /\ returned'.frame.out[1].SegmentNum = returned'.frame.TestSegmentCount
            /\ returned'.frame.out[1].TestSeq = returned'.frame.TotalTestCases
       /\ (Returns /\ returned'.frame.op = "UtAssert_BeginTest") =>
            returned'.frame.out[1].SegmentNum = returned'.frame.TestSegmentCount
       /\ (Returns /\ returned'.frame.op = "UtAssert_EndTest"
             /\ returned'.frame.found.cases > 0) =>
            DigitsAt(returned'.frame.out[2].Name, 1) =
                PadZero(DecimalText(Val(returned'.frame.Local_SegmentCounters.TestSegmentCount)),
                        2)
      ]_vars

\* after a finished segment of one case, the first case recorded next has been given
\* the pair (2, 1)
C26_Witness ==
    /\ UT_TotalCounters.TestSegmentCount = One32
    /\ issued = <<[SegmentNum |-> ToUint32(2), TestSeq |-> One32]>>
    /\ returned.frame.op = "UtAssertEx"
    /\ returned.frame.out[1].SegmentNum = ToUint32(2)
    /\ returned.frame.out[1].TestSeq = One32

\* the pair the i-th case of the segment in progress gets, given the cumulative
\* aggregate
PairOf(Total, i) ==
    [SegmentNum |-> Add32(One32, Total.TestSegmentCount), TestSeq |-> ToUint32(i)]

\* C27: UtAssert_BeginTest never changes the cumulative aggregate and discards every
\* case recorded since the last BeginTest or EndTest: the next EndTest adds only the
\* cases recorded after it, and the pairs the discarded cases had are issued again
\* to the cases that follow.
C27_BeginTestDiscards ==
    [][/\ \A t \in Threads :
            /\ (pc[t] \in {"begin_name", "begin_notify"} \/ pc'[t] = "begin_name") =>
                  (pc'[t] # pc[t] => UNCHANGED UT_TotalCounters)
            /\ (pc[t] = "idle" /\ pc'[t] = "begin_name") =>
                  /\ UT_SegmentCounters' = ZeroCounters
                  /\ frame'[t].found.cases = Len(issued)
                  /\ \A i \in 1..Len(issued) : issued[i] = PairOf(UT_TotalCounters', i)
                  /\ issued' = <<>>
            /\ (pc[t] = "ex_snap" /\ pc'[t] # pc[t]) =>
                  /\ issued' = Append(issued, PairOf(UT_TotalCounters, Len(issued) + 1))
                  /\ frame'[t].TotalTestCases = ToUint32(Len(issued) + 1)
            /\ (pc[t] = "idle" /\ pc'[t] = "end_clear") =>
                  /\ UT_TotalCounters'.TotalTestCases =
                         Add32(UT_TotalCounters.TotalTestCases, ToUint32(Len(issued)))
                  /\ Sum32(UT_TotalCounters'.CaseCount, CaseTypes) =
                         Add32(Sum32(UT_TotalCounters.CaseCount, CaseTypes),
                               ToUint32(Len(issued) - log.outOfRange))
      ]_vars

\* a BeginTest that found one recorded case is about to announce its segment, and the
\* case recorded since has been given the pair (1, 1) again; the totals are untouched
C27_Witness ==
    \E t \in Threads :
        /\ pc[t] = "begin_notify"
        /\ frame[t].found.cases = 1
        /\ issued = <<PairOf(ZeroCounters, 1)>>
        /\ UT_TotalCounters = ZeroCounters

QueryOps == {"UtAssert_GetPassCount", "UtAssert_GetFailCount", "UtAssert_GetCounters"}

\* a cell read without the lock holds the sum over the finished segments, or, while
\* an EndTest is folding a segment in, that sum without the share of this segment
ReadOfSum(v, Sum, Share(_)) ==
    \/ v = Sum
    \/ \E u \in Threads :
          /\ pc[u] = "end_clear"
          /\ frame[u].found.cases > 0
          /\ Add32(v, Share(u)) = Sum

SegmentShare(u) == One32
CaseShare(u) == frame[u].Local_SegmentCounters.TotalTestCases
PassShare(u) == frame[u].Local_SegmentCounters.CaseCount[UTASSERT_CASETYPE_PASS]
FailShare(u) == frame[u].Local_SegmentCounters.CaseCount[UTASSERT_CASETYPE_FAILURE]

\* C28: UtAssertEx never changes the cumulative aggregate; only UtAssert_EndTest on a
\* segment with at least one case does.  UtAssert_GetPassCount, UtAssert_GetFailCount
\* and UtAssert_GetCounters therefore return the sums over the finished segments,
\* without the cases of the segment in progress; a read that overlaps the fold of an
\* EndTest gives each cell with or without the segment being folded in.
C28_TotalsChangeOnlyAtEndTest ==
    [][/\ UT_TotalCounters' # UT_TotalCounters =>
            \E t \in Threads : pc[t] = "idle" /\ pc'[t] = "end_clear" /\ log.cases > 0
       /\ \A t \in Threads :
            (pc'[t] # pc[t] /\ (pc[t] \in {"ex_snap", "ex_report"} \/ pc'[t] = "ex_snap")) =>
                UNCHANGED UT_TotalCounters
       /\ (Returns /\ returned'.frame.op \in QueryOps) =>
            /\ UNCHANGED <<UT_TotalCounters, UT_SegmentCounters>>
            /\ returned'.frame.op = "UtAssert_GetPassCount" =>
                  ReadOfSum(returned'.frame.got.count,
                            Finalized.CaseCount[UTASSERT_CASETYPE_PASS], PassShare)
            /\ returned'.frame.op = "UtAssert_GetFailCount" =>
                  ReadOfSum(returned'.frame.got.count,
                            Finalized.CaseCount[UTASSERT_CASETYPE_FAILURE], FailShare)
            /\ returned'.frame.op = "UtAssert_GetCounters" =>
                  /\ returned'.frame.got.ref = "UT_TotalCounters"
                  /\ ReadOfSum(returned'.frame.got.counters.TestSegmentCount,
                               Finalized.TestSegmentCount, SegmentShare)
                  /\ ReadOfSum(returned'.frame.got.counters.TotalTestCases,
                               Finalized.TotalTestCases, CaseShare)
                  /\ \A c \in CaseTypes :
                        LET Share(u) == frame[u].Local_SegmentCounters.CaseCount[c]
                        IN ReadOfSum(returned'.frame.got.counters.CaseCount[c],
                                     Finalized.CaseCount[c], Share)
      ]_vars

\* one passing case is in a finished segment and another in the segment in progress:
\* the pass count returned is one
C28_Witness ==
    /\ returned.frame.op = "UtAssert_GetPassCount"
    /\ returned.frame.got.count = One32
    /\ UT_SegmentCounters.CaseCount[UTASSERT_CASETYPE_PASS] = One32
    /\ UT_TotalCounters.TestSegmentCount = One32

====
